---- MODULE Spec2Model ----
(***************************************************************************)
(* Verification model of the generation-serving gateway (lesprgm/Roulette).*)
(*                                                                         *)
(* The module holds several specifications over one set of variables; each *)
(* one exercises one component and leaves the others' variables unchanged: *)
(*   SpecQ      prefetch queue (file backend) with its dedupe store        *)
(*   SpecDisp   producers and the POST /generate dispatcher                *)
(*   SpecStream producers and the POST /generate/stream dispatcher         *)
(*   SpecConc   concurrent dequeue()/take() callers, one file op per step  *)
(*   SpecGen    generate_page attempt loop                                 *)
(*   SpecRL     in-process rate limiter                                    *)
(*   SpecCat    category rotator                                           *)
(*   SpecDD     dedupe store on its own                                    *)
(*   SpecDDConc concurrent callers of dedupe.add(), one file op per step   *)
(*   SpecQD     prefetch queue next to the other writers of the store      *)
(*   SpecReview review worker's batch handler on the queue files           *)
(*   SpecParse  stream parser of generate_page_burst, character level      *)
(*   SpecBurst  generate_page_burst as a whole, with its fallbacks         *)
(*   SpecProv   provider order of one generate_page attempt                *)
(*   SpecBackoff  the same with the OpenRouter backoff                     *)
(*   SpecRev    _maybe_run_compliance_review on the reviewer's answer      *)
(*   SpecRevBackoff  the Gemini reviewer's calls with its backoff          *)
(*   SpecTake   take(token) next to enqueue and dequeue                    *)
(*   SpecDq     dequeue() on a queue with damaged records                  *)
(*   SpecTopUp  the background top-up job next to a consumer               *)
(*   SpecTopUpAlone  the top-up job with no consumer, fair                 *)
(*   SpecHitTopUp    a prefetch hit and the top-up it schedules, fair      *)
(*   SpecNorm   _normalize_doc applied once and twice to a document        *)
(*   SpecRevQ   the review worker's queue of batches and attempts          *)
(*   SpecPool   schedulers and review workers as threads, fair             *)
(*   SpecBk     the OpenRouter backoff delay over repeated rate limits     *)
(*   SpecRevBatch    one batch review matched to the queued records        *)
(*   SpecBoth   one review read by the single and by the batch path        *)
(*   SpecProducers   concurrent enqueue() callers, step by step, and peek  *)
(*   SpecRlConc concurrent allow_request() callers, step by step           *)
(*   SpecRevConc     the review's write-back next to dequeue, take, peek   *)
(*                                                                         *)
(* Modelling conventions.                                                  *)
(*  - The wall clock (time.time(), time.time_ns()) is the variable clock.  *)
(*    It never goes back, and it advances only by the action Tick: two     *)
(*    reads may return the same value (clock resolution; a runtime whose   *)
(*    clock stands still while a handler runs, as under worker_entry.py).  *)
(*  - A document is a number in Docs; SignatureForDoc maps it to its       *)
(*    structural signature, and several documents share a signature.       *)
(*  - PYTEST_CURRENT_TEST is unset and DEDUPE_ENABLED is on (production).  *)
(*  - Redis is not configured (REDIS_URL empty): the file backend is used. *)
(***************************************************************************)
EXTENDS Integers, Sequences, FiniteSets, TLC

VARIABLES
    clock,      \* wall clock, in ticks
    files,      \* PREFETCH_DIR: file name -> record; a name is <<time_ns, uuid8>>
    seen,       \* DEDUPE_FILE: sequence of [sig, ts] in dict insertion order
    nextSeq,    \* ghost: ordinal of the next accepted enqueue
    deqLog,     \* ghost: ordinals of the records returned by dequeue(), in order
    scheduled,  \* background top-up tasks added by the dispatcher (their min_fill)
    last,       \* ghost: the last operation, its inputs and its result
    thr,        \* per-thread state of a running dequeue()/take() or add()
    delivered,  \* ghost: <<thread, record ordinal or signature>> of the calls returned
    gp,         \* state of the one call or job a specification follows
    backoff,    \* _OPENROUTER_BACKOFF_UNTIL and _OPENROUTER_BACKOFF_DELAY
    gemini_review_backoff_until,  \* _GEMINI_REVIEW_BACKOFF_UNTIL
    store,      \* ratelimit._store: (bucket, key) -> entry, or NoEntry
    rlAllowed,  \* ghost: <<key, reset_ts>> of every request allowed, in order
    catIdx,     \* _category_indices: sequence of [key, idx] in insertion order
    catHist     \* ghost: calls so far, in all and (mod 5) per user key; per normalised
                \* key the last index returned and whether its cursor was discarded since

qVars == <<clock, files, seen, nextSeq, deqLog, scheduled>>
concVars == <<thr, delivered>>
genVars == <<gp, backoff, gemini_review_backoff_until>>
rlVars == <<store, rlAllowed>>
catVars == <<catIdx, catHist>>
vars == <<clock, files, seen, nextSeq, deqLog, scheduled, last, thr, delivered,
          gp, backoff, gemini_review_backoff_until, store, rlAllowed, catIdx, catHist>>

-----------------------------------------------------------------------------
(* Bounds of the model. *)
MaxClock == 2       \* the clock runs 0..MaxClock
NumDocs == 3        \* documents 1..NumDocs
MaxEnqueued == 3    \* accepted enqueues in one behaviour
NumUids == 2        \* values of the random 8-hex-digit file name suffix
MaxBurst == 2       \* items one burst call yields in the model (the code caps at 10)
NumThreads == 2     \* concurrent callers of dequeue()/take()
MaxDelivered == 3   \* records returned to callers in one behaviour of SpecConc
MaxCalls == 7       \* calls of _next_category_note in one behaviour of SpecCat
NumSigs == 3        \* signatures offered to the dedupe store in SpecDD
MaxText == 5        \* characters of upstream array text in one burst stream

Docs == 1..NumDocs
Uids == 1..NumUids
Threads == 1..NumThreads
None == "None"
ErrorItem == 0          \* an {"error": ...} item of a burst

(* dedupe.signature_for_doc: a hash of the structural skeleton; documents   *)
(* with the same layout collide on purpose.  Documents 2k-1 and 2k share a  *)
(* layout.  The digest is never the empty string for a dict.                *)
SignatureForDoc(d) == (d + 1) \div 2

(* run_compliance_batch / the reviewer: the verdict the reviewer gives for  *)
(* a document when it is asked.  Every third document is blocked (ok=false).*)
ReviewerRejects(d) == d % 3 = 0

-----------------------------------------------------------------------------
(* Dedupe store, api/dedupe.py *)

DEDUPE_ENABLED == TRUE
DEDUPE_MAX == 2     \* DEDUPE_MAX (default 200), scaled

SeenSigs(data) == {data[i].sig : i \in DOMAIN data}

(* has(sig): re-reads the file and tests membership *)
Has(data, sig) == DEDUPE_ENABLED /\ sig \in SeenSigs(data)

(* data[sig] = now on a dict: an existing key keeps its position *)
DictSet(data, sig, now) ==
    IF sig \in SeenSigs(data)
    THEN [i \in DOMAIN data |-> IF data[i].sig = sig THEN [sig |-> sig, ts |-> now] ELSE data[i]]
    ELSE Append(data, [sig |-> sig, ts |-> now])

(* faulty variant: the newest entries come first *)
SortedBeforeNewestFirst(data, i, j) ==
    \/ data[i].ts > data[j].ts
    \/ data[i].ts = data[j].ts /\ i > j

(* sorted(data.keys(), key=lambda k: data[k]) is stable: position i comes   *)
(* before j when its timestamp is smaller, or equal and i was inserted first *)
SortedBefore(data, i, j) ==
    \/ data[i].ts < data[j].ts
    \/ data[i].ts = data[j].ts /\ i < j

RankInSorted(data, i) == Cardinality({j \in DOMAIN data : SortedBefore(data, j, i)})

(* faulty variant: the cap is enforced one entry late *)
EvictedSigsLateCap(data) ==
    IF Len(data) > DEDUPE_MAX + 1
    THEN {data[i].sig : i \in {j \in DOMAIN data : RankInSorted(data, j) < Len(data) - DEDUPE_MAX}}
    ELSE {}

(* the keys sorted(...)[: max(0, len(data) - DEDUPE_MAX)] *)
EvictedSigs(data) ==
    IF Len(data) > DEDUPE_MAX
    THEN {data[i].sig : i \in {j \in DOMAIN data : RankInSorted(data, j) < Len(data) - DEDUPE_MAX}}
    ELSE {}

DropSigs(data, gone) == SelectSeq(data, LAMBDA e : e.sig \notin gone)

(* add(sig): load, set, evict the oldest past the cap, save *)
Add(data, sig, now) ==
    IF ~DEDUPE_ENABLED THEN data
    ELSE LET ins == DictSet(data, sig, now)
         IN DropSigs(ins, EvictedSigs(ins))

-----------------------------------------------------------------------------
(* Prefetch queue, file backend, api/prefetch.py *)

Names == (0..MaxClock) \X Uids

(* sorted(PREFETCH_DIR.glob("*.json")): names "<time_ns>-<uuid8>.json"      *)
(* compare as strings; time_ns has 19 digits, so by time_ns, then by suffix *)
NameBefore(a, b) == a[1] < b[1] \/ (a[1] = b[1] /\ a[2] < b[2])

RECURSIVE SortNames(_)
SortNames(S) ==
    IF S = {} THEN <<>>
    ELSE LET m == CHOOSE a \in S : \A b \in S \ {a} : NameBefore(a, b)
         IN <<m>> \o SortNames(S \ {m})

ListFiles(fs) == SortNames(DOMAIN fs)

Size(fs) == Cardinality(DOMAIN fs)

RemoveFiles(fs, gone) == [n \in (DOMAIN fs) \ gone |-> fs[n]]

(* the record enqueue() writes: the document with created_at set.  seq is   *)
(* a ghost field: the ordinal of the enqueue that wrote the record.         *)
NewRecord(d, now, seq) ==
    [doc |-> d, created_at |-> now, review |-> None, parseable |-> TRUE, seq |-> seq]

(* faulty variant: a known signature is refused whatever the queue size    *)
EnqueueRefusedAnySize(fs, data, d) == Has(data, SignatureForDoc(d))

(* enqueue(doc), lines 294-302: refused when the signature is known and the *)
(* queue is not empty                                                       *)
EnqueueRefused(fs, data, d) == Has(data, SignatureForDoc(d)) /\ Size(fs) > 0

(* dequeue(), file backend: walk the sorted listing, drop unparseable       *)
(* files, unlink and return the first parseable one                         *)
RECURSIVE DequeueWalk(_, _, _)
DequeueWalk(fs, order, dropped) ==
    IF order = <<>> THEN [hit |-> FALSE, name |-> None, dropped |-> dropped]
    ELSE IF ~fs[Head(order)].parseable
         THEN DequeueWalk(fs, Tail(order), dropped \cup {Head(order)})
         ELSE [hit |-> TRUE, name |-> Head(order), dropped |-> dropped]

DequeueResult(fs) == DequeueWalk(fs, ListFiles(fs), {})

(* faulty variant: the unparseable files met on the way are left in place *)
FilesAfterDequeueLeavesDropped(fs) ==
    LET r == DequeueResult(fs)
    IN RemoveFiles(fs, IF r.hit THEN {r.name} ELSE {})

(* faulty variant: the returned file is not unlinked *)
FilesAfterDequeueKeep(fs) == fs

FilesAfterDequeue(fs) ==
    LET r == DequeueResult(fs)
    IN RemoveFiles(fs, r.dropped \cup (IF r.hit THEN {r.name} ELSE {}))

(* Rate limiter, api/ratelimit.py: the keys of _store and an absent entry *)
ClientKeys == {"gen/k1", "gen/k2"}
NoEntry == [present |-> FALSE, count |-> 0, reset_ts |-> 0]

(* Category rotator, api/llm_client.py: user keys as callers pass them and   *)
(* key = (user_key or "").strip() or "__global__"                           *)
UserKeys == {"", "a", "a ", "b"}
StripKey(user_key) == IF user_key = "a " THEN "a" ELSE user_key
NormalKey(user_key) == IF StripKey(user_key) = "" THEN "__global__" ELSE StripKey(user_key)
NormalKeys == {NormalKey(k) : k \in UserKeys}

(* a request thread that is not inside dequeue()/take() *)
IdleThread == [pc |-> "idle"]

-----------------------------------------------------------------------------
InitQ ==
    /\ clock = 0
    /\ files = <<>>
    /\ seen = <<>>
    /\ nextSeq = 1
    /\ deqLog = <<>>
    /\ scheduled = {}

InitOther ==
    /\ thr = [t \in Threads |-> IdleThread]
    /\ delivered = <<>>
    /\ gp = [pc |-> "idle"]
    /\ backoff = [until |-> 0, delay |-> 0]
    /\ gemini_review_backoff_until = 0
    /\ store = [k \in ClientKeys |-> NoEntry]
    /\ rlAllowed = <<>>
    /\ catIdx = <<>>
    /\ catHist = [calls |-> 0, raw |-> [k \in UserKeys |-> 0],
                  cursor |-> [k \in NormalKeys |-> [idx |-> -1, discarded |-> FALSE]]]

Init ==
    /\ InitQ
    /\ InitOther
    /\ last = [op |-> "init"]

Tick ==
    /\ clock < MaxClock
    /\ clock' = clock + 1
    /\ last' = [op |-> "tick"]
    /\ UNCHANGED <<files, seen, nextSeq, deqLog, scheduled>>
    /\ UNCHANGED <<concVars, genVars, rlVars, catVars>>

(* prefetch.enqueue(doc), called by a producer (top-up, prewarm, fill) *)
Enqueue(d) ==
    /\ nextSeq <= MaxEnqueued
    /\ LET sig == SignatureForDoc(d)
       IN IF EnqueueRefused(files, seen, d)
          THEN /\ last' = [op |-> "enqueue", doc |-> d, accepted |-> FALSE, ret |-> None,
                           known |-> Has(seen, sig), sizeBefore |-> Size(files),
                           filesBefore |-> files, seenBefore |-> seen]
               /\ UNCHANGED <<files, seen, nextSeq>>
          ELSE \E u \in Uids :
               LET name == <<clock, u>>
               IN /\ name \notin DOMAIN files     \* a fresh "<time_ns>-<uuid8>.json"
                  /\ seen' = Add(seen, sig, clock)
                  /\ files' = [n \in (DOMAIN files) \cup {name} |->
                                 IF n = name THEN NewRecord(d, clock, nextSeq) ELSE files[n]]
                  /\ nextSeq' = nextSeq + 1
                  /\ last' = [op |-> "enqueue", doc |-> d, accepted |-> TRUE, ret |-> name,
                              known |-> Has(seen, sig), sizeBefore |-> Size(files),
                              filesBefore |-> files, seenBefore |-> seen]
    /\ UNCHANGED <<clock, deqLog, scheduled>>
    /\ UNCHANGED <<concVars, genVars, rlVars, catVars>>

(* prefetch.dequeue(), called on its own *)
Dequeue ==
    /\ LET r == DequeueResult(files)
       IN /\ files' = FilesAfterDequeue(files)
          /\ deqLog' = IF r.hit THEN Append(deqLog, files[r.name].seq) ELSE deqLog
          /\ last' = [op |-> "dequeue", hit |-> r.hit,
                      ret |-> IF r.hit THEN files[r.name] ELSE None,
                      sizeBefore |-> Size(files)]
    /\ UNCHANGED <<clock, seen, nextSeq, scheduled>>
    /\ UNCHANGED <<concVars, genVars, rlVars, catVars>>

-----------------------------------------------------------------------------
(* Dispatcher, api/main.py *)

PREFETCH_LOW_WATER == 1       \* PREFETCH_LOW_WATER (default 55), scaled
PREFETCH_FILL_TO == 2         \* PREFETCH_FILL_TO (default 75), scaled
PREFETCH_REVIEW_BATCH == 2    \* PREFETCH_REVIEW_BATCH (default 3), scaled
PrefetchTopupEnabled == TRUE  \* _prefetch_topup_enabled() outside pytest

Max2(a, b) == IF a >= b THEN a ELSE b
Min2(a, b) == IF a <= b THEN a ELSE b

(* the knobs as the dispatcher's specifications fix them *)
ScaledKnobs ==
    [low_water |-> PREFETCH_LOW_WATER, fill_to |-> PREFETCH_FILL_TO,
     review_batch |-> PREFETCH_REVIEW_BATCH]

(* _prefetch_target_size(current) under the knobs k *)
TargetSizeWith(k, current) ==
    LET cap == Max2(k.fill_to, k.low_water)
    IN IF current <= 0 THEN cap
       ELSE IF current <= k.low_water
            THEN Max2(Min2(cap, current + k.review_batch), k.low_water)
            ELSE cap

PrefetchTargetSize(current) == TargetSizeWith(ScaledKnobs, current)

(* What one call of llm_generate_page_burst yields: items (documents or     *)
(* {"error": ...} items), and whether the iterator raises after them.       *)
BurstItems == Docs \cup {ErrorItem}
BurstSeqs == UNION {[1..n -> BurstItems] : n \in 0..MaxBurst}
BurstResults == [items : BurstSeqs, raises : BOOLEAN]

PageOf(item) == IF item = ErrorItem THEN [kind |-> "error"] ELSE [kind |-> "doc", doc |-> item]

(* background_tasks.add_task(_top_up_prefetch, brief, target) when the      *)
(* queue is at or below low water after a prefetch hit                     *)
ScheduledAfterHit(fs, sched) ==
    IF PrefetchTopupEnabled /\ Size(fs) <= PREFETCH_LOW_WATER
    THEN sched \cup {PrefetchTargetSize(Size(fs))}
    ELSE sched

(* what the dispatcher's handlers leave alone *)
DispatchFrame ==
    /\ UNCHANGED <<clock, seen, nextSeq>>
    /\ UNCHANGED <<concVars, genVars, rlVars, catVars>>

(* POST /generate (generate_endpoint), one action per branch.  allowed is   *)
(* the answer of _safe_rate_check("gen", client_key); the limiter itself is *)
(* SpecRL.                                                                  *)
(* The served-pages counter (counter.increment) is not modelled.            *)
GenerateBase(llm_available, allowed) ==
    [op |-> "generate", llm |-> llm_available, allowed |-> allowed,
     sizeBefore |-> Size(files),
     headSeq |-> IF Size(files) = 0 THEN 0 ELSE files[ListFiles(files)[1]].seq]

(* lines 676-736: no LLM configured *)
GenerateUnavailable(offline_allowed, allowed) ==
    /\ DispatchFrame
    /\ last' = GenerateBase(FALSE, allowed) @@
               [status |-> IF ~offline_allowed THEN 503 ELSE IF allowed THEN 200 ELSE 429,
                hit |-> FALSE, burstCalled |-> FALSE,
                page |-> IF offline_allowed /\ allowed THEN [kind |-> "offline"]
                         ELSE [kind |-> "error"],
                sizeAfter |-> Size(files)]
    /\ UNCHANGED <<files, deqLog, scheduled>>

(* lines 738-745: the rate limiter denies *)
GenerateDenied ==
    /\ DispatchFrame
    /\ last' = GenerateBase(TRUE, FALSE) @@
               [status |-> 429, hit |-> FALSE, burstCalled |-> FALSE,
                page |-> [kind |-> "error"], sizeAfter |-> Size(files)]
    /\ UNCHANGED <<files, deqLog, scheduled>>

(* lines 747-773: page = prefetch.dequeue(); if page: serve it *)
GenerateHit ==
    LET r == DequeueResult(files)
        after == FilesAfterDequeue(files)
    IN /\ r.hit
       /\ DispatchFrame
       /\ files' = after
       /\ deqLog' = Append(deqLog, files[r.name].seq)
       /\ scheduled' = ScheduledAfterHit(after, scheduled)
       /\ last' = GenerateBase(TRUE, TRUE) @@
                  [status |-> 200, hit |-> TRUE, burstCalled |-> FALSE,
                   page |-> [kind |-> "record", rec |-> files[r.name]],
                   served |-> files[r.name].doc, sizeAfter |-> Size(after)]

(* lines 775-790: queue empty, page = next(burst_iter, {"error": ...}) *)
GenerateMiss(burst) ==
    LET r == DequeueResult(files)
        after == FilesAfterDequeue(files)
    IN /\ ~r.hit
       /\ DispatchFrame
       /\ files' = after
       /\ UNCHANGED <<deqLog, scheduled>>
       /\ last' = GenerateBase(TRUE, TRUE) @@
                  [status |-> 200, hit |-> FALSE, burstCalled |-> TRUE,
                   first |-> IF burst.items # <<>> THEN burst.items[1] ELSE ErrorItem,
                   yielded |-> burst.items # <<>>,
                   page |-> IF burst.items # <<>> THEN PageOf(burst.items[1])
                            ELSE [kind |-> "error"],
                   sizeAfter |-> Size(after)]

(* the miss branch, for whatever the burst yields *)
GenerateOnMiss ==
    /\ ~DequeueResult(files).hit
    /\ \E burst \in BurstResults : GenerateMiss(burst)

MetaEvent == [event |-> "meta"]
PageEvent(page) == [event |-> "page", data |-> page]
ErrorEvent == [event |-> "error"]

RECURSIVE PageEvents(_)
PageEvents(items) ==
    IF items = <<>> THEN <<>>
    ELSE <<PageEvent(PageOf(Head(items)))>> \o PageEvents(Tail(items))

(* POST /generate/stream (generate_stream and its _iter), one action per    *)
(* branch                                                                   *)
StreamBase(llm_available, allowed) ==
    [op |-> "stream", llm |-> llm_available, allowed |-> allowed,
     sizeBefore |-> Size(files), enqueuedBefore |-> nextSeq]

(* lines 808-818: no LLM and no offline mode: meta, then an error event *)
StreamUnavailable ==
    /\ DispatchFrame
    /\ last' = StreamBase(FALSE, TRUE) @@
               [status |-> 200, hit |-> FALSE, limited |-> FALSE,
                events |-> <<MetaEvent, ErrorEvent>>, burstItems |-> <<>>]
    /\ UNCHANGED <<files, deqLog, scheduled>>

(* lines 820-827: the rate limiter denies: a 429 JSON response, no stream *)
StreamDenied(llm_available) ==
    /\ DispatchFrame
    /\ last' = StreamBase(llm_available, FALSE) @@
               [status |-> 429, hit |-> FALSE, limited |-> TRUE,
                events |-> <<>>, burstItems |-> <<>>]
    /\ UNCHANGED <<files, deqLog, scheduled>>

(* lines 833-874: offline mode: the prefetched page or the offline page *)
StreamOffline ==
    LET r == DequeueResult(files)
        after == FilesAfterDequeue(files)
    IN /\ DispatchFrame
       /\ files' = after
       /\ deqLog' = IF r.hit THEN Append(deqLog, files[r.name].seq) ELSE deqLog
       /\ UNCHANGED scheduled
       /\ last' = StreamBase(FALSE, TRUE) @@
                  [status |-> 200, hit |-> r.hit, limited |-> FALSE, burstItems |-> <<>>,
                   served |-> IF r.hit THEN files[r.name].doc ELSE ErrorItem,
                   events |-> <<MetaEvent,
                                PageEvent(IF r.hit THEN [kind |-> "record", rec |-> files[r.name]]
                                          ELSE [kind |-> "offline"])>>]

(* lines 899-909 and 924-930: prefetch hit.  The page event is yielded at   *)
(* line 909 and, the branch not returning, again at line 930.               *)
StreamHit ==
    LET r == DequeueResult(files)
        after == FilesAfterDequeue(files)
        page == [kind |-> "record", rec |-> files[r.name]]
    IN /\ r.hit
       /\ DispatchFrame
       /\ files' = after
       /\ deqLog' = Append(deqLog, files[r.name].seq)
       /\ scheduled' = ScheduledAfterHit(after, scheduled)
       /\ last' = StreamBase(TRUE, TRUE) @@
                  [status |-> 200, hit |-> TRUE, limited |-> FALSE, burstItems |-> <<>>,
                   served |-> files[r.name].doc,
                   events |-> <<MetaEvent, PageEvent(page), PageEvent(page)>>]

(* lines 910-922: queue empty: every burst item is yielded as a page event, *)
(* an exception of the burst as an error event; nothing is enqueued         *)
StreamMiss(burst) ==
    LET r == DequeueResult(files)
        after == FilesAfterDequeue(files)
    IN /\ ~r.hit
       /\ DispatchFrame
       /\ files' = after
       /\ UNCHANGED <<deqLog, scheduled>>
       /\ last' = StreamBase(TRUE, TRUE) @@
                  [status |-> 200, hit |-> FALSE, limited |-> FALSE,
                   burstItems |-> burst.items,
                   events |-> <<MetaEvent>> \o PageEvents(burst.items)
                              \o (IF burst.raises THEN <<ErrorEvent>> ELSE <<>>)]

(* the miss branch, for whatever the burst yields *)
StreamOnMiss ==
    /\ ~DequeueResult(files).hit
    /\ \E burst \in BurstResults : StreamMiss(burst)

(* _schedule_prefetch_review(paths), as its callers call it: with the       *)
(* identifiers enqueue() returned.  enqueue() returns path.name, a str, and *)
(* line 503 evaluates p.exists() on each element: for a non-empty list of   *)
(* str this raises AttributeError before anything is queued.  asPath says   *)
(* whether the elements are pathlib.Path objects of PREFETCH_DIR.           *)
SchedulePrefetchReviewOutcome(paths, asPath, fs) ==
    IF paths = {} THEN "nothing"
    ELSE IF ~asPath THEN "raised"
    ELSE IF paths \cap DOMAIN fs = {} THEN "nothing"
    ELSE "queued"

SchedulePrefetchReview ==
    /\ \E paths \in SUBSET (DOMAIN files) :
          last' = [op |-> "schedule_review", paths |-> paths,
                   outcome |-> SchedulePrefetchReviewOutcome(paths, FALSE, files)]
    /\ UNCHANGED qVars
    /\ UNCHANGED <<concVars, genVars, rlVars, catVars>>

(* the queue on its own: producers and one consumer *)
NextQ ==
    \/ Tick
    \/ \E d \in Docs : Enqueue(d)
    \/ Dequeue

SpecQ == Init /\ [][NextQ]_vars

(* producers and POST /generate *)
NextDisp ==
    \/ Tick
    \/ \E d \in Docs : Enqueue(d)
    \/ SchedulePrefetchReview
    \/ \E offline_allowed \in BOOLEAN, allowed \in BOOLEAN :
          GenerateUnavailable(offline_allowed, allowed)
    \/ GenerateDenied
    \/ GenerateHit
    \/ GenerateOnMiss

SpecDisp == Init /\ [][NextDisp]_vars

(* producers and POST /generate/stream *)
NextStream ==
    \/ \E d \in Docs : Enqueue(d)
    \/ StreamUnavailable
    \/ \E llm_available \in BOOLEAN : StreamDenied(llm_available)
    \/ StreamOffline
    \/ StreamHit
    \/ StreamOnMiss

SpecStream == Init /\ [][NextStream]_vars

-----------------------------------------------------------------------------
(* Properties of the queue and the dispatcher *)

(* C1: the records dequeue returns are the enqueued records in enqueue      *)
(* order: the k-th record returned is the k-th record accepted.             *)
C1_DequeueInEnqueueOrder == \A i \in DOMAIN deqLog : deqLog[i] = i

(* C3: an enqueue of a document whose signature is in the store is refused, *)
(* queue and store unchanged, when the queue is not empty, and accepted     *)
(* when it is empty; an accepted enqueue leaves the signature in the store  *)
(* and adds exactly one record, holding the document, to the queue.         *)
C3_EnqueueDuplicateRule ==
    last.op = "enqueue" =>
      /\ (last.known /\ last.sizeBefore > 0) =>
            (~last.accepted /\ files = last.filesBefore /\ seen = last.seenBefore)
      /\ (last.known /\ last.sizeBefore = 0) => last.accepted
      /\ ~last.known => last.accepted
      /\ last.accepted =>
            /\ Has(seen, SignatureForDoc(last.doc))
            /\ Size(files) = last.sizeBefore + 1
            /\ \E n \in (DOMAIN files) \ (DOMAIN last.filesBefore) :
                  /\ files[n].doc = last.doc
                  /\ RemoveFiles(files, {n}) = last.filesBefore

(* the recovery path happened: a known signature, an empty queue, accepted *)
C3_Witness ==
    /\ last.op = "enqueue"
    /\ last.known
    /\ last.sizeBefore = 0
    /\ last.accepted
    /\ Size(files) = 1

(* C4: an allowed POST /generate with the LLM available answers with the    *)
(* head of a non-empty queue, the queue one shorter and the burst not       *)
(* called; the burst is called only when dequeue returned nothing, and the  *)
(* answer is then the first item the burst yields.                          *)
C4_PrefetchFirst ==
    (last.op = "generate" /\ last.llm /\ last.allowed) =>
      /\ last.sizeBefore > 0 =>
            /\ last.hit
            /\ ~last.burstCalled
            /\ last.page.kind = "record"
            /\ last.page.rec.seq = last.headSeq
            /\ last.sizeAfter = last.sizeBefore - 1
      /\ last.burstCalled => (~last.hit /\ last.sizeBefore = 0 /\ last.sizeAfter = 0)
      /\ (last.burstCalled /\ last.yielded) => last.page = PageOf(last.first)
      /\ last.sizeBefore = 0 => last.burstCalled

(* a hit on a queue of two or more records *)
C4_Witness ==
    /\ last.op = "generate"
    /\ last.hit
    /\ last.sizeBefore >= 2
    /\ last.sizeAfter = last.sizeBefore - 1

NumPageEvents(events) == Cardinality({i \in DOMAIN events : events[i].event = "page"})

(* C5: a POST /generate/stream that is allowed, with the LLM available,     *)
(* and that has a document to deliver starts with the meta event and holds  *)
(* exactly one page event: the prefetched record on a hit, else the first   *)
(* burst item, the other burst documents being in the queue afterwards.     *)
C5_StreamOnePage ==
    (last.op = "stream" /\ last.llm /\ last.allowed /\ (last.hit \/ last.burstItems # <<>>)) =>
      /\ last.events[1] = MetaEvent
      /\ NumPageEvents(last.events) = 1
      /\ ~last.hit => \A i \in 2..Len(last.burstItems) :
                        last.burstItems[i] # ErrorItem =>
                          \E n \in DOMAIN files : files[n].doc = last.burstItems[i]

(* C7: a document a client is served from the prefetch queue is never one   *)
(* the compliance review rejects.                                           *)
C7_ServedDocsPassReview ==
    (last.op \in {"generate", "stream"} /\ last.hit) => ~ReviewerRejects(last.served)

-----------------------------------------------------------------------------
(* Concurrent callers.  The endpoints are sync handlers run on a thread     *)
(* pool; dequeue() and take() take no lock, so each file operation of one   *)
(* call is a step that other calls' steps may come between.                 *)

SetThread(t, st) == [thr EXCEPT ![t] = st]

ThreadFrame ==
    /\ Len(delivered) < MaxDelivered
    /\ last' = [op |-> "thread"]
    /\ UNCHANGED <<clock, seen, nextSeq, deqLog, scheduled>>
    /\ UNCHANGED <<genVars, rlVars, catVars>>

(* dequeue(): files = _list_files(); if not files: return None *)
DqList(t) ==
    /\ ThreadFrame
    /\ thr[t].pc = "idle"
    /\ LET order == ListFiles(files)
       IN thr' = SetThread(t, IF order = <<>> THEN IdleThread
                              ELSE [pc |-> "dq_read", order |-> order])
    /\ UNCHANGED <<files, delivered>>

(* dequeue(): data = json.loads(path.read_text()) for the next listed path; *)
(* a path that is gone raises, is unlinked (missing_ok) and skipped         *)
DqRead(t) ==
    /\ ThreadFrame
    /\ thr[t].pc = "dq_read"
    /\ LET path == Head(thr[t].order)
           rest == Tail(thr[t].order)
       IN IF path \in DOMAIN files /\ files[path].parseable
          THEN /\ thr' = SetThread(t, [pc |-> "dq_unlink", path |-> path, data |-> files[path]])
               /\ UNCHANGED files
          ELSE /\ files' = RemoveFiles(files, {path})
               /\ thr' = SetThread(t, IF rest = <<>> THEN IdleThread
                                      ELSE [pc |-> "dq_read", order |-> rest])
    /\ UNCHANGED delivered

(* dequeue(): path.unlink(missing_ok=True); return data *)
DqUnlink(t) ==
    /\ ThreadFrame
    /\ thr[t].pc = "dq_unlink"
    /\ files' = RemoveFiles(files, {thr[t].path})
    /\ delivered' = Append(delivered, <<t, thr[t].data.seq>>)
    /\ thr' = SetThread(t, IdleThread)

(* take(token) with a valid file token for name: if not path.exists():      *)
(* return None                                                              *)
TkExists(t, name) ==
    /\ ThreadFrame
    /\ thr[t].pc = "idle"
    /\ thr' = SetThread(t, IF name \in DOMAIN files THEN [pc |-> "tk_read", path |-> name]
                           ELSE IdleThread)
    /\ UNCHANGED <<files, delivered>>

(* take(): doc = _read_doc(path); not a dict: unlink, return None *)
TkRead(t) ==
    /\ ThreadFrame
    /\ thr[t].pc = "tk_read"
    /\ LET path == thr[t].path
       IN IF path \in DOMAIN files /\ files[path].parseable
          THEN /\ thr' = SetThread(t, [pc |-> "tk_unlink", path |-> path, data |-> files[path]])
               /\ UNCHANGED files
          ELSE /\ files' = RemoveFiles(files, {path})
               /\ thr' = SetThread(t, IdleThread)
    /\ UNCHANGED delivered

(* take(): path.unlink(missing_ok=True); return doc *)
TkUnlink(t) ==
    /\ ThreadFrame
    /\ thr[t].pc = "tk_unlink"
    /\ files' = RemoveFiles(files, {thr[t].path})
    /\ delivered' = Append(delivered, <<t, thr[t].data.seq>>)
    /\ thr' = SetThread(t, IdleThread)

NextConc ==
    \/ \E d \in Docs : Enqueue(d)
    \/ \E t \in Threads : DqList(t)
    \/ \E t \in Threads : DqRead(t)
    \/ \E t \in Threads : DqUnlink(t)
    \/ \E t \in Threads, name \in Names : TkExists(t, name)
    \/ \E t \in Threads : TkRead(t)
    \/ \E t \in Threads : TkUnlink(t)

SpecConc == Init /\ [][NextConc]_vars

(* C2: whatever the interleaving of dequeue() and take() callers, no record *)
(* is returned to two callers.                                              *)
C2_EachRecordToOneCaller ==
    \A i, j \in DOMAIN delivered : i # j => delivered[i][2] # delivered[j][2]

-----------------------------------------------------------------------------
(* generate_page attempt loop, api/llm_client.py.  One action per iteration *)
(* of the while loop; nothing else runs in between under SpecGen.           *)

max_attempts == 3
SeedStep == 7919
SeedModulus == 10000019

NoDoc == 0                          \* a provider call that returned nothing
ErrorDoc == [error |-> "Model generation failed"]
SeedInputs == {0, 5, 9999999}       \* the seed argument; 0 asks for a random one
RandomSeeds == {1, 10000000}        \* random.randint(1, 10_000_000)

(* seed_val = (seed_val + 7919) % 10_000_019 *)
PerturbSeed(seed_val) == (seed_val + SeedStep) % SeedModulus

(* What the reviewer answered for one draft: usable is FALSE when the       *)
(* review is inactive or its response is not a dict; ok is the value of     *)
(* review["ok"] ("missing" when absent); corrected is the replacement       *)
(* document, NoDoc when none; normalizes says whether _normalize_doc        *)
(* accepts the replacement.                                                 *)
NotRun == [usable |-> FALSE, ok |-> "missing", has_block |-> FALSE,
           corrected |-> NoDoc, normalizes |-> TRUE]

Reviews ==
    {r \in [usable : BOOLEAN, ok : {"true", "false", "missing"}, has_block : BOOLEAN,
             corrected : Docs \cup {NoDoc}, normalizes : BOOLEAN] :
        /\ ~r.usable => r = NotRun
        /\ r.corrected = NoDoc => r.normalizes}

(* faulty variant: a block-severity issue does not reject *)
MaybeRunComplianceReviewNoBlock(review) ==
    IF ~review.usable THEN [corrected |-> NoDoc, review_ok |-> TRUE]
    ELSE IF review.ok = "false" THEN [corrected |-> NoDoc, review_ok |-> FALSE]
    ELSE [corrected |-> review.corrected, review_ok |-> TRUE]

(* _maybe_run_compliance_review: (review, corrected_doc, review_ok) *)
MaybeRunComplianceReview(review) ==
    IF ~review.usable THEN [corrected |-> NoDoc, review_ok |-> TRUE]
    ELSE IF review.ok = "false" \/ (review.has_block /\ review.corrected = NoDoc)
         THEN [corrected |-> NoDoc, review_ok |-> FALSE]
         ELSE [corrected |-> review.corrected, review_ok |-> TRUE]

(* One iteration of the loop, lines 279-368, on the provider's draft and    *)
(* the reviewer's answer: the verdict and the document that would be        *)
(* returned.                                                                *)
AttemptOutcome(draft, review, run_review, data) ==
    IF draft = NoDoc THEN [verdict |-> "provider_failed", doc |-> NoDoc]
    ELSE IF Has(data, SignatureForDoc(draft)) THEN [verdict |-> "duplicate", doc |-> NoDoc]
    ELSE LET r == IF run_review THEN MaybeRunComplianceReview(review)
                  ELSE [corrected |-> NoDoc, review_ok |-> TRUE]
             doc == IF r.corrected # NoDoc THEN r.corrected ELSE draft
         IN IF r.corrected # NoDoc /\ ~review.normalizes
            THEN [verdict |-> "invalid_correction", doc |-> NoDoc]
            ELSE IF ~r.review_ok THEN [verdict |-> "review_rejected", doc |-> NoDoc]
            ELSE IF Has(data, SignatureForDoc(doc))
                 THEN [verdict |-> "duplicate_final", doc |-> NoDoc]
                 ELSE [verdict |-> "accepted", doc |-> doc]

RetryVerdicts == {"duplicate", "invalid_correction", "review_rejected", "duplicate_final"}

GenFrame ==
    /\ UNCHANGED <<clock, files, nextSeq, deqLog, scheduled, backoff, gemini_review_backoff_until>>
    /\ UNCHANGED <<concVars, rlVars, catVars>>

(* generate_page(brief, seed, user_key, run_review) is entered *)
GpStart(seed, run_review) ==
    /\ gp.pc = "idle"
    /\ GenFrame
    /\ \E seed_val \in (IF seed = 0 THEN RandomSeeds ELSE {seed}) :
          gp' = [pc |-> "loop", attempts |-> 0, seed_val |-> seed_val,
                 run_review |-> run_review, result |-> ErrorDoc]
    /\ last' = [op |-> "gp_start"]
    /\ UNCHANGED seen

(* one iteration of while attempts < max_attempts *)
GpAttempt(draft, review) ==
    /\ gp.pc = "loop"
    /\ gp.attempts < max_attempts
    /\ GenFrame
    /\ LET out == AttemptOutcome(draft, review, gp.run_review, seen)
           n == gp.attempts + 1
           seenReview == IF gp.run_review /\ draft # NoDoc THEN review ELSE NotRun
       IN /\ last' = [op |-> "gp_attempt", draft |-> draft, review |-> seenReview,
                      seed_val |-> gp.seed_val, seenBefore |-> seen, verdict |-> out.verdict]
          /\ IF out.verdict = "provider_failed"
             THEN /\ gp' = [gp EXCEPT !.pc = "done", !.attempts = n, !.result = ErrorDoc]
                  /\ UNCHANGED seen
             ELSE IF out.verdict \in RetryVerdicts
             THEN /\ gp' = [gp EXCEPT !.pc = IF n < max_attempts THEN "loop" ELSE "done",
                                      !.attempts = n,
                                      !.seed_val = PerturbSeed(gp.seed_val),
                                      !.result = ErrorDoc]
                  /\ UNCHANGED seen
             ELSE /\ gp' = [gp EXCEPT !.pc = "done", !.attempts = n,
                                      !.result = [doc |-> out.doc]]
                  /\ seen' = Add(seen, SignatureForDoc(out.doc), clock)

(* the caller has the result; the next call may begin *)
GpReturn ==
    /\ gp.pc = "done"
    /\ GenFrame
    /\ gp' = [pc |-> "idle"]
    /\ last' = [op |-> "gp_return"]
    /\ UNCHANGED seen

NextGen ==
    \/ \E seed \in SeedInputs, run_review \in BOOLEAN : GpStart(seed, run_review)
    \/ \E draft \in Docs \cup {NoDoc}, review \in Reviews : GpAttempt(draft, review)
    \/ GpReturn

SpecGen == Init /\ [][NextGen]_vars

(* the review of the draft is not ok: ok=false, or a block-severity issue   *)
(* without a corrected document                                             *)
ReviewNotOk(review) ==
    review.usable /\ (review.ok = "false" \/ (review.has_block /\ review.corrected = NoDoc))

(* C6: generate_page makes at most 3 attempts; a draft whose review is not  *)
(* ok, or whose signature is in the dedupe store, is not returned: the loop *)
(* goes on with the seed perturbed, or, after the third attempt, the result *)
(* is the error document; a returned document's signature was not in the    *)
(* store.                                                                   *)
C6_AtMostThreeAttemptsNoRejectedDoc ==
    /\ gp.pc # "idle" => gp.attempts <= 3
    /\ last.op = "gp_attempt" =>
          /\ (ReviewNotOk(last.review) \/ Has(last.seenBefore, SignatureForDoc(last.draft))) =>
                /\ gp.result = ErrorDoc
                /\ \/ gp.pc = "loop" /\ gp.attempts < 3
                                     /\ gp.seed_val = (last.seed_val + 7919) % 10000019
                   \/ gp.pc = "done" /\ gp.attempts = 3
          /\ (gp.pc = "done" /\ gp.result # ErrorDoc) =>
                /\ ~Has(last.seenBefore, SignatureForDoc(gp.result.doc))
                /\ Has(seen, SignatureForDoc(gp.result.doc))
          /\ (gp.pc = "done" /\ gp.attempts = 3 /\ last.verdict # "accepted") =>
                gp.result = ErrorDoc

(* the third attempt was rejected by the review and the call ended in error *)
C6_Witness ==
    /\ last.op = "gp_attempt"
    /\ gp.pc = "done"
    /\ gp.attempts = 3
    /\ ReviewNotOk(last.review)
    /\ gp.result = ErrorDoc

-----------------------------------------------------------------------------
(* In-process rate limiter, api/ratelimit.py, and the 429 response of       *)
(* api/main.py.  _now() is int(time.time()): the clock counts seconds here. *)

WINDOW_SECONDS == 2     \* RATE_WINDOW_SECONDS (default 10800), scaled
MAX_REQUESTS == 2       \* RATE_MAX_REQUESTS (default 30), scaled

(* _ensure_entry: a fresh entry when there is none or the window is over *)
EnsureEntry(entry, now) ==
    IF ~entry.present \/ now >= entry.reset_ts
    THEN [present |-> TRUE, count |-> 0, reset_ts |-> now + WINDOW_SECONDS]
    ELSE entry

(* faulty variant: one request too many passes *)
UnderLimitInclusive(entry) == entry.count <= MAX_REQUESTS

(* allow_request, line 31: if entry["count"] < MAX_REQUESTS *)
UnderLimit(entry) == entry.count < MAX_REQUESTS

(* allow_request: the entry afterwards and (allowed, remaining, reset_ts) *)
AllowRequest(entry, now) ==
    LET e == EnsureEntry(entry, now)
    IN IF UnderLimit(e)
       THEN [entry |-> [e EXCEPT !.count = e.count + 1], allowed |-> TRUE,
             remaining |-> Max2(0, MAX_REQUESTS - (e.count + 1)), reset_ts |-> e.reset_ts]
       ELSE [entry |-> e, allowed |-> FALSE, remaining |-> 0, reset_ts |-> e.reset_ts]

(* _rate_limit_headers(remaining, reset_ts, limited): Retry-After is        *)
(* max(0, reset_ts - int(time.time())), the clock being read again          *)
RateLimitHeaders(remaining, reset_ts, limited, now) ==
    [remaining |-> remaining, reset |-> reset_ts, limited |-> limited,
     retry_after |-> IF limited THEN Max2(0, reset_ts - now) ELSE 0]

(* a request of client k passes _safe_rate_check("gen", k); when it is      *)
(* denied the handler answers 429 with the limit headers.  The clock may    *)
(* move on between the check and the headers.                               *)
RateCheck(k) ==
    /\ LET r == AllowRequest(store[k], clock)
       IN \E later \in {clock, Min2(clock + 1, MaxClock)} :
            /\ clock' = later
            /\ store' = [store EXCEPT ![k] = r.entry]
            /\ rlAllowed' = IF r.allowed THEN Append(rlAllowed, <<k, r.reset_ts>>)
                            ELSE rlAllowed
            /\ last' = [op |-> "rate_check", key |-> k, allowed |-> r.allowed,
                        status |-> IF r.allowed THEN 200 ELSE 429,
                        headers |-> RateLimitHeaders(r.remaining, r.reset_ts, ~r.allowed, later),
                        entryBefore |-> store[k]]
    /\ UNCHANGED <<files, seen, nextSeq, deqLog, scheduled>>
    /\ UNCHANGED <<concVars, genVars, catVars>>

NextRL ==
    \/ Tick
    \/ \E k \in ClientKeys : RateCheck(k)

SpecRL == Init /\ [][NextRL]_vars

(* requests of key k allowed in the window that ends at reset_ts *)
AllowedInWindow(k, reset_ts) ==
    Cardinality({i \in DOMAIN rlAllowed : rlAllowed[i] = <<k, reset_ts>>})

(* C8: per key, at most MAX_REQUESTS requests are allowed in one window;    *)
(* once that many were allowed a further request in the window is denied:   *)
(* 429 with Retry-After >= 0 and remaining 0; a denied request leaves the   *)
(* count as it was.                                                         *)
C8_WindowBound ==
    /\ \A k \in ClientKeys : \A i \in DOMAIN rlAllowed :
          AllowedInWindow(k, rlAllowed[i][2]) <= MAX_REQUESTS
    /\ last.op = "rate_check" =>
          /\ (/\ last.entryBefore.present
              /\ last.headers.reset = last.entryBefore.reset_ts
              /\ AllowedInWindow(last.key, last.entryBefore.reset_ts)
                    - (IF last.allowed THEN 1 ELSE 0) >= MAX_REQUESTS) => ~last.allowed
          /\ ~last.allowed =>
                /\ last.status = 429
                /\ last.headers.limited
                /\ last.headers.retry_after >= 0
                /\ last.headers.remaining = 0
                /\ store[last.key] = last.entryBefore
                /\ AllowedInWindow(last.key, last.headers.reset) = MAX_REQUESTS

(* a request is denied after MAX_REQUESTS were allowed in its window *)
C8_Witness ==
    /\ last.op = "rate_check"
    /\ ~last.allowed
    /\ AllowedInWindow(last.key, last.headers.reset) = MAX_REQUESTS
    /\ Len(rlAllowed) > MAX_REQUESTS

-----------------------------------------------------------------------------
(* Category rotator, _next_category_note in api/llm_client.py *)

NumCategories == 5      \* len(_CATEGORY_ROTATION_NOTES)
CategoryLimit == 2      \* the map is trimmed when it holds more (4096), scaled
CategoryKeep == 1       \* ... down to this many entries (2048), scaled

(* _category_indices.get(key, -1) *)
CursorOf(dict, key) ==
    IF \E i \in DOMAIN dict : dict[i].key = key
    THEN dict[CHOOSE i \in DOMAIN dict : dict[i].key = key].idx
    ELSE -1

(* faulty variant: the cursor moves two categories on *)
NextIndexStride2(prev) == (prev + 2) % NumCategories

(* idx = (previous + 1) % len(_CATEGORY_ROTATION_NOTES) *)
NextIndex(prev) == (prev + 1) % NumCategories

(* _category_indices[key] = idx: an existing key keeps its position *)
SetCursor(dict, key, idx) ==
    IF \E i \in DOMAIN dict : dict[i].key = key
    THEN [i \in DOMAIN dict |-> IF dict[i].key = key THEN [key |-> key, idx |-> idx] ELSE dict[i]]
    ELSE Append(dict, [key |-> key, idx |-> idx])

(* the keys the trimming loop pops: in insertion order, never the active    *)
(* key, until the map holds no more than CategoryKeep entries               *)
StaleKeys(dict, key) ==
    IF Len(dict) <= CategoryLimit THEN {}
    ELSE LET others == {i \in DOMAIN dict : dict[i].key # key}
             rank(i) == Cardinality({j \in others : j < i})
         IN {dict[i].key : i \in {j \in others : rank(j) < Len(dict) - CategoryKeep}}

(* _next_category_note(user_key): the index of the note returned (the note  *)
(* is _CATEGORY_ROTATION_NOTES[idx], category idx + 1) and the map after    *)
NextCategoryNote(dict, user_key) ==
    LET key == NormalKey(user_key)
        idx == NextIndex(CursorOf(dict, key))
        set == SetCursor(dict, key, idx)
        stale == StaleKeys(set, key)
    IN [key |-> key, idx |-> idx, stale |-> stale,
        dict |-> SelectSeq(set, LAMBDA e : e.key \notin stale)]

CategoryCall(user_key) ==
    /\ catHist.calls < MaxCalls
    /\ LET r == NextCategoryNote(catIdx, user_key)
           was == catHist.cursor[r.key]
       IN /\ catIdx' = r.dict
          /\ catHist' =
                [calls |-> catHist.calls + 1,
                 raw |-> [catHist.raw EXCEPT ![user_key] = (@ + 1) % NumCategories],
                 cursor |-> [k \in NormalKeys |->
                               IF k = r.key THEN [idx |-> r.idx, discarded |-> FALSE]
                               ELSE IF k \in r.stale
                                    THEN [catHist.cursor[k] EXCEPT !.discarded = TRUE]
                                    ELSE catHist.cursor[k]]]
          /\ last' = [op |-> "category", user_key |-> user_key, key |-> r.key,
                      idx |-> r.idx, category |-> r.idx + 1,
                      callsBefore |-> catHist.raw[user_key],
                      prevIdx |-> was.idx, discarded |-> was.discarded]
    /\ UNCHANGED qVars
    /\ UNCHANGED <<concVars, genVars, rlVars>>

NextCat == \E user_key \in UserKeys : CategoryCall(user_key)

SpecCat == Init /\ [][NextCat]_vars

(* C9 as stated: the n-th call for a user key returns category              *)
(* ((n - 1) mod 5) + 1, whatever calls for other keys come in between.      *)
C9_CyclePerUserKey ==
    last.op = "category" => last.category = (last.callsBefore % 5) + 1

(* C9, amended: per normalised key (stripped; empty is "__global__") the    *)
(* category returned is the one after the key's previous category, in the   *)
(* cycle 1..5, as long as the key's cursor was not discarded by the map     *)
(* trimming since; a key without cursor gets category 1.                    *)
C9_CyclePerCursor ==
    last.op = "category" =>
      /\ last.category \in 1..5
      /\ (last.prevIdx # -1 /\ ~last.discarded) =>
            last.category = ((last.prevIdx + 1) % 5) + 1
      /\ (last.prevIdx = -1 \/ last.discarded) => last.category = 1
      /\ catHist.cursor[last.key].idx = CursorOf(catIdx, last.key)

(* a key whose cursor was discarded starts again at category 1 although its *)
(* previous category was not 5                                              *)
C9_Witness ==
    /\ last.op = "category"
    /\ last.discarded
    /\ last.prevIdx \in 0..3
    /\ last.category = 1

-----------------------------------------------------------------------------
(* The dedupe store on its own: callers of add() and has(), one at a time *)

Sigs == 1..NumSigs

DedupeAdd(sig) ==
    /\ seen' = Add(seen, sig, clock)
    /\ last' = [op |-> "add", sig |-> sig, seenBefore |-> seen]
    /\ UNCHANGED <<clock, files, nextSeq, deqLog, scheduled>>
    /\ UNCHANGED <<concVars, genVars, rlVars, catVars>>

DedupeHas(sig) ==
    /\ last' = [op |-> "has", sig |-> sig, ret |-> Has(seen, sig)]
    /\ UNCHANGED qVars
    /\ UNCHANGED <<concVars, genVars, rlVars, catVars>>

NextDD ==
    \/ Tick
    \/ \E sig \in Sigs : DedupeAdd(sig)
    \/ \E sig \in Sigs : DedupeHas(sig)

SpecDD == Init /\ [][NextDD]_vars

(* C10: a signature stays in the store, and has() answers true for it, from *)
(* the add that put it there until an add that takes the store over its     *)
(* capacity evicts it; the signature an add has just added is in the store  *)
(* when the add returns.                                                    *)
C10_AddedStaysUntilEvicted ==
    [][ /\ \A s \in SeenSigs(seen) \ SeenSigs(seen') :
             /\ last'.op = "add"
             /\ last'.sig # s
             /\ last'.sig \notin SeenSigs(seen)
             /\ Len(seen) >= DEDUPE_MAX
        /\ last'.op = "add" => Has(seen', last'.sig)
        /\ last'.op = "has" => (last'.ret <=> last'.sig \in SeenSigs(seen))
      ]_vars

(* an add on a full store evicted another signature and kept its own *)
C10_Witness ==
    /\ last.op = "add"
    /\ Len(last.seenBefore) = DEDUPE_MAX
    /\ last.sig \notin SeenSigs(last.seenBefore)
    /\ Has(seen, last.sig)
    /\ SeenSigs(last.seenBefore) \ SeenSigs(seen) # {}

(* C11: the store never holds more than DEDUPE_MAX signatures, and the      *)
(* entries an add evicts carry the oldest timestamps: no entry that stays   *)
(* is older than an entry that went.                                        *)
TsBeforeEviction(e) ==
    IF e = last.sig THEN clock
    ELSE last.seenBefore[CHOOSE i \in DOMAIN last.seenBefore : last.seenBefore[i].sig = e].ts

C11_CapAndOldestEvicted ==
    /\ Len(seen) <= DEDUPE_MAX
    /\ Cardinality(SeenSigs(seen)) = Len(seen)
    /\ last.op = "add" =>
         \A e \in (SeenSigs(last.seenBefore) \cup {last.sig}) \ SeenSigs(seen) :
             \A i \in DOMAIN seen : TsBeforeEviction(e) <= seen[i].ts

(* an add on a full store evicted an entry strictly older than one it kept *)
C11_Witness ==
    /\ last.op = "add"
    /\ Len(seen) = DEDUPE_MAX
    /\ \E e \in SeenSigs(last.seenBefore) \ SeenSigs(seen) :
           \E i \in DOMAIN seen : seen[i].sig # last.sig /\ TsBeforeEviction(e) < seen[i].ts

-----------------------------------------------------------------------------
(* Concurrent callers of dedupe.add(), one file operation per step.  The    *)
(* module takes no lock: add() is _load(), an update of the loaded dict and *)
(* _save(), and _save() replaces the file as a whole.                       *)
(* delivered records <<thread, sig>> of every add() that has returned.      *)

AddFrame ==
    /\ Len(delivered) < MaxDelivered
    /\ last' = [op |-> "add_step"]
    /\ UNCHANGED <<clock, files, nextSeq, deqLog, scheduled>>
    /\ UNCHANGED <<genVars, rlVars, catVars>>

(* add(): data = _load() *)
AddLoad(t, sig) ==
    /\ AddFrame
    /\ thr[t].pc = "idle"
    /\ thr' = SetThread(t, [pc |-> "add_loaded", sig |-> sig, data |-> seen])
    /\ UNCHANGED <<seen, delivered>>

(* add(): now = time.time(); data[sig] = now; pop the oldest past the cap *)
AddUpdate(t) ==
    /\ AddFrame
    /\ thr[t].pc = "add_loaded"
    /\ thr' = SetThread(t, [pc |-> "add_save", sig |-> thr[t].sig,
                            data |-> Add(thr[t].data, thr[t].sig, clock)])
    /\ UNCHANGED <<seen, delivered>>

(* add(): _save(data), then return *)
AddSave(t) ==
    /\ AddFrame
    /\ thr[t].pc = "add_save"
    /\ seen' = thr[t].data
    /\ delivered' = Append(delivered, <<t, thr[t].sig>>)
    /\ thr' = SetThread(t, IdleThread)

NextDDConc ==
    \/ Tick
    \/ \E t \in Threads, sig \in Sigs : AddLoad(t, sig)
    \/ \E t \in Threads : AddUpdate(t)
    \/ \E t \in Threads : AddSave(t)

SpecDDConc == Init /\ [][NextDDConc]_vars

AddedSigs == {delivered[i][2] : i \in DOMAIN delivered}

(* C12: once every add() has returned, and the signatures added were        *)
(* distinct and no more than the capacity, has() is true for each of them.  *)
C12_NoLostUpdate ==
    ( /\ \A t \in Threads : thr[t].pc = "idle"
      /\ Cardinality(AddedSigs) = Len(delivered)
      /\ Len(delivered) <= DEDUPE_MAX )
    => \A sig \in AddedSigs : Has(seen, sig)

-----------------------------------------------------------------------------
(* The queue next to the other writers of the dedupe store.  generate_page  *)
(* (llm_client.py, dedupe.add(final_sig)) and the review worker (main.py,   *)
(* dedupe.add(sig)) add signatures to the same DEDUPE_FILE as enqueue().    *)

NextQD ==
    \/ Tick
    \/ \E d \in Docs : Enqueue(d)
    \/ Dequeue
    \/ \E sig \in Sigs : DedupeAdd(sig)

SpecQD == Init /\ [][NextQD]_vars

(* C13: no two records of the queue have the same structural signature *)
C13_QueueSignaturesDistinct ==
    \A m, n \in DOMAIN files :
        m # n => SignatureForDoc(files[m].doc) # SignatureForDoc(files[n].doc)

-----------------------------------------------------------------------------
(* The review worker's batch handler, main._review_prefetched_docs(paths),  *)
(* run on a batch of queue files given as Path objects, next to enqueue()   *)
(* and dequeue().                                                           *)

(* a dict the reviewer returns as "doc" on which _normalize_doc raises      *)
(* ValueError("No renderable HTML found"); every document in Docs is an     *)
(* output of _normalize_doc                                                 *)
UnrenderableDoc == NumDocs + 1

(* llm_parsing._normalize_doc(doc) returns a document of one variant, or raises *)
NormalizeDocRaises(d) == d \notin Docs

(* what run_compliance_batch answers for one document of the batch:         *)
(*   "none"     no usable review for this index (the path is retried)       *)
(*   "reject"   ok is False                                                 *)
(*   "approve"  ok, no "doc"                                                *)
(*   "fix"      ok, "doc" is a dict that normalizes                         *)
(*   "fix_bad"  ok, "doc" is a dict that does not normalize                 *)
BatchVerdicts == {"none", "reject", "approve", "fix", "fix_bad"}

(* the corrected document of a "fix" verdict *)
CorrectedDoc(d) == (d % NumDocs) + 1

(* lines 439-465 for one path of the chunk: st is [fs, data] *)
ReviewOnePath(st, name, verdict, now) ==
    IF verdict = "none" THEN st
    ELSE IF verdict = "reject" THEN [fs |-> RemoveFiles(st.fs, {name}), data |-> st.data]
    ELSE LET doc == IF verdict = "fix" THEN CorrectedDoc(st.fs[name].doc)
                    ELSE IF verdict = "fix_bad" THEN UnrenderableDoc
                    ELSE st.fs[name].doc
         IN [fs |-> [st.fs EXCEPT ![name] = [@ EXCEPT !.doc = doc, !.review = "ok"]],
             data |-> Add(st.data, SignatureForDoc(doc), now)]

RECURSIVE ReviewPaths(_, _, _, _)
ReviewPaths(st, paths, verdicts, now) ==
    IF paths = <<>> THEN st
    ELSE ReviewPaths(ReviewOnePath(st, Head(paths), verdicts[Head(paths)], now),
                     Tail(paths), verdicts, now)

(* _review_prefetched_docs(paths): the paths that exist, in one chunk *)
ReviewPrefetchedDocs ==
    \E batch \in SUBSET (DOMAIN files) :
      /\ batch # {}
      /\ Cardinality(batch) <= PREFETCH_REVIEW_BATCH
      /\ \E verdicts \in [batch -> BatchVerdicts] :
           LET st == ReviewPaths([fs |-> files, data |-> seen], SortNames(batch), verdicts, clock)
           IN /\ files' = st.fs
              /\ seen' = st.data
              /\ last' = [op |-> "review", batch |-> batch, verdicts |-> verdicts]
      /\ UNCHANGED <<clock, nextSeq, deqLog, scheduled>>
      /\ UNCHANGED <<concVars, genVars, rlVars, catVars>>

NextReview ==
    \/ \E d \in Docs : Enqueue(d)
    \/ ReviewPrefetchedDocs
    \/ Dequeue

SpecReview == Init /\ [][NextReview]_vars

-----------------------------------------------------------------------------
(* The stream parser of generate_page_burst, llm_client.py and              *)
(* llm_parsing.py.  Each line of the response carries one envelope whose    *)
(* text is the next piece of the JSON array; the pieces are appended to     *)
(* full_text, and after every line the completed objects of full_text       *)
(* beyond last_obj_count are normalized and yielded.                        *)
(* A text is a sequence of characters: "q" is the double quote, "b" the     *)
(* backslash; a candidate holding a string stands for an object with html.  *)

target_docs == 10       \* len(category_notes)

Chars == {"[", " ", "{", "}", "q", "b"}

RECURSIVE LStrip(_)
LStrip(s) == IF s # <<>> /\ Head(s) = " " THEN LStrip(Tail(s)) ELSE s

RECURSIVE RStrip(_)
RStrip(s) == IF s # <<>> /\ s[Len(s)] = " " THEN RStrip(SubSeq(s, 1, Len(s) - 1)) ELSE s

(* str.strip() *)
Strip(s) == RStrip(LStrip(s))

(* json.loads(candidate) raises: the object does not open with a key *)
JsonLoadsRaises(candidate) == Len(candidate) >= 2 /\ candidate[2] \in {"{", "[", "b"}

(* _normalize_doc raises on a dict with no string in it (no html, css, js) *)
NormalizeRaises(obj) == \A i \in DOMAIN obj : obj[i] # "q"

(* one character of the loop of _extract_completed_objects_from_array *)
ExtractChar(st, s, i) ==
    LET ch == s[i]
        in_str == IF ch = "q" /\ ~st.esc THEN ~st.in_str ELSE st.in_str
    IN IF in_str
       THEN [st EXCEPT !.in_str = in_str, !.esc = (ch = "b") /\ ~st.esc]
       ELSE IF ch = "{"
            THEN [st EXCEPT !.in_str = in_str,
                            !.start = IF st.depth = 0 THEN i ELSE st.start,
                            !.depth = st.depth + 1]
            ELSE IF ch = "}"
                 THEN IF st.depth - 1 = 0 /\ st.start # -1
                      THEN LET candidate == SubSeq(s, st.start, i)
                           IN [st EXCEPT !.in_str = in_str, !.depth = 0, !.start = -1,
                                         !.objs = IF JsonLoadsRaises(candidate) THEN st.objs
                                                  ELSE Append(st.objs, candidate)]
                      ELSE [st EXCEPT !.in_str = in_str, !.depth = st.depth - 1]
                 ELSE [st EXCEPT !.in_str = in_str]

RECURSIVE ExtractFrom(_, _, _)
ExtractFrom(st, s, i) ==
    IF i > Len(s) THEN st.objs ELSE ExtractFrom(ExtractChar(st, s, i), s, i + 1)

(* _extract_completed_objects_from_array(text) *)
ExtractCompletedObjectsFromArray(text) ==
    LET t == Strip(text)
        s == IF t # <<>> /\ Head(t) = "[" THEN Strip(Tail(t)) ELSE t
    IN ExtractFrom([depth |-> 0, start |-> -1, in_str |-> FALSE, esc |-> FALSE, objs |-> <<>>],
                   s, 1)

(* faulty variant: every completed object is taken again on every line *)
FirstNewSiteZero(count) == 1

(* range(last_obj_count, len(sites)) starts at the first object not yet     *)
(* seen (sites is indexed from 1 here)                                      *)
FirstNewSite(count) == count + 1

(* for i in range(last_obj_count, len(sites)): normalize, yield, count;     *)
(* st is [count, yielded, stop]                                             *)
RECURSIVE YieldNewSites(_, _, _)
YieldNewSites(st, sites, i) ==
    IF i > Len(sites) \/ st.stop THEN st
    ELSE IF NormalizeRaises(sites[i])
         THEN YieldNewSites([st EXCEPT !.count = st.count + 1], sites, i + 1)
         ELSE LET y == Append(st.yielded, sites[i])
              IN YieldNewSites([count |-> st.count + 1, yielded |-> y,
                                stop |-> Len(y) >= target_docs], sites, i + 1)

(* generate_page_burst is entered and the response has status 200 *)
BurstOpen ==
    /\ gp.pc = "idle"
    /\ GenFrame
    /\ gp' = [pc |-> "stream", full_text |-> <<>>, last_obj_count |-> 0,
              yielded |-> <<>>, stop |-> FALSE]
    /\ last' = [op |-> "burst_open"]
    /\ UNCHANGED seen

(* one iteration of for line in resp.iter_lines(): the envelope of the line *)
(* carries the next piece t of the array text                               *)
BurstLine(t) ==
    /\ gp.pc = "stream"
    /\ ~gp.stop
    /\ t # <<>>
    /\ Len(gp.full_text) + Len(t) <= MaxText
    /\ GenFrame
    /\ LET full_text == gp.full_text \o t
           sites == ExtractCompletedObjectsFromArray(full_text)
           st == YieldNewSites([count |-> gp.last_obj_count, yielded |-> gp.yielded,
                                stop |-> FALSE], sites, FirstNewSite(gp.last_obj_count))
       IN /\ gp' = [gp EXCEPT !.full_text = full_text, !.last_obj_count = st.count,
                              !.yielded = st.yielded, !.stop = st.stop]
          /\ last' = [op |-> "burst_line", first |-> gp.full_text = <<>>,
                      new |-> Len(st.yielded) - Len(gp.yielded)]
    /\ UNCHANGED seen

(* the response closes *)
BurstClose ==
    /\ gp.pc = "stream"
    /\ GenFrame
    /\ gp' = [pc |-> "idle"]
    /\ last' = [op |-> "burst_close"]
    /\ UNCHANGED seen

(* the pieces the next line may carry *)
BurstNextLine ==
    /\ gp.pc = "stream"
    /\ \E n \in 1..(MaxText - Len(gp.full_text)) : \E t \in [1..n -> Chars] : BurstLine(t)

NextParse ==
    \/ BurstOpen
    \/ BurstNextLine
    \/ BurstClose

SpecParse == Init /\ [][NextParse]_vars

(* the objects of a text that normalize, in order *)
NormalizedSites(sites) == SelectSeq(sites, LAMBDA o : ~NormalizeRaises(o))

(* C15: however the text is cut into pieces, what the burst has yielded     *)
(* after a piece is what parsing the text received so far in one go gives:  *)
(* every completed object once, in array order; when the stream ends that   *)
(* is the parse of the whole text.                                          *)
C15_ChunkingDoesNotMatter ==
    gp.pc = "stream" =>
      LET sites == ExtractCompletedObjectsFromArray(gp.full_text)
          whole == NormalizedSites(sites)
      IN /\ gp.yielded = SubSeq(whole, 1, IF Len(whole) < target_docs THEN Len(whole)
                                           ELSE target_docs)
         /\ gp.last_obj_count = Len(sites)

(* an object cut in two by a line boundary was yielded, once, by the later line *)
C15_Witness ==
    /\ gp.pc = "stream"
    /\ last.op = "burst_line"
    /\ ~last.first
    /\ last.new = 1
    /\ gp.full_text = <<"{", "q", "}", "q", "}">>
    /\ gp.yielded = <<gp.full_text>>

-----------------------------------------------------------------------------
(* generate_page_burst as a whole, llm_client.py: the entry, the stream,    *)
(* and the fallbacks.  Documents are counted, not told apart: docs is the   *)
(* number of documents yielded so far, errors the number of {"error"} items.*)
(* A generate_page call inside a fallback is given by the outcomes of its   *)
(* attempts: "failed" (every provider returned nothing), "refused" (a       *)
(* provider returned a draft, and the duplicate check or the review sent    *)
(* the loop round again), "accepted".                                       *)

GpOutcomes ==
    {o \in UNION {[1..n -> {"failed", "refused", "accepted"}] : n \in 1..max_attempts} :
        /\ \A i \in 1..(Len(o) - 1) : o[i] = "refused"
        /\ o[Len(o)] = "refused" => Len(o) = max_attempts}

(* generate_page returns a document exactly when an attempt is accepted *)
GeneratePageReturnsDoc(o) == o[Len(o)] = "accepted"

(* a provider returned a draft in some attempt of the call *)
SomeProviderReturned(o) == \E i \in DOMAIN o : o[i] # "failed"

NoCall == <<>>

(* faulty variant: nothing is yielded when nothing was generated *)
FallbackErrorItemsNone(generated) == 0

(* _fallback_burst: if generated == 0: yield {"error": ...} *)
FallbackErrorItems(generated) == IF generated = 0 THEN 1 ELSE 0

(* the responses of the streaming endpoint the model tells apart *)
BurstEntries == {"no_key", "post_raises", "status_429", "status_500", "status_200"}

(* what the tolerant parse of an empty stream's text recovers *)
RecoveredCounts == {0, 1, target_docs + 1}

BurstIdle == [pc |-> "idle"]

(* generate_page_burst(brief, seed, user_key) up to the first byte of the response *)
BurstEnter(entry) ==
    /\ gp.pc = "idle"
    /\ GenFrame
    /\ gp' = [pc |-> IF entry = "status_200" THEN "b_stream" ELSE "b_fallback",
              via |-> IF entry = "status_200" THEN "stream"
                      ELSE IF entry \in {"status_429", "status_500"} THEN "status"
                      ELSE entry,
              providers_override |-> IF entry \in {"status_429", "post_raises"} THEN "groq" ELSE None,
              docs |-> 0, errors |-> 0, generated |-> 0, attempts |-> 0, firstCall |-> NoCall,
              recovered |-> 0]
    /\ last' = [op |-> "burst_enter", entry |-> entry]
    /\ UNCHANGED seen

(* a line of the stream completes an object that normalizes: it is yielded *)
BurstStreamDoc ==
    /\ gp.pc = "b_stream"
    /\ gp.docs < target_docs
    /\ GenFrame
    /\ gp' = [gp EXCEPT !.docs = gp.docs + 1]
    /\ last' = [op |-> "burst_stream_doc"]
    /\ UNCHANGED seen

(* resp.iter_lines() raises (connection reset, read timeout): except        *)
(* Exception, then _fallback_burst(target_docs=10, providers_override=groq) *)
BurstStreamRaises ==
    /\ gp.pc = "b_stream"
    /\ gp.docs < target_docs
    /\ GenFrame
    /\ gp' = [gp EXCEPT !.pc = "b_fallback", !.via = "raised", !.providers_override = "groq"]
    /\ last' = [op |-> "burst_stream_raises"]
    /\ UNCHANGED seen

(* the stream ends, or stop_stream: with no document yielded the text is    *)
(* parsed tolerantly, and with nothing recovered _fallback_single runs      *)
BurstStreamEnds(recovered) ==
    /\ gp.pc = "b_stream"
    /\ GenFrame
    /\ gp' = IF gp.docs > 0 THEN [gp EXCEPT !.pc = "b_done"]
             ELSE IF recovered > 0
                  THEN [gp EXCEPT !.pc = "b_done", !.via = "empty", !.recovered = recovered,
                                  !.docs = Min2(recovered, target_docs)]
                  ELSE [gp EXCEPT !.pc = "b_single", !.via = "empty"]
    /\ last' = [op |-> "burst_stream_ends"]
    /\ UNCHANGED seen

(* _fallback_single: one generate_page call, one item *)
BurstFallbackSingle(o) ==
    /\ gp.pc = "b_single"
    /\ GenFrame
    /\ gp' = [gp EXCEPT !.pc = "b_done", !.firstCall = o,
                        !.docs = IF GeneratePageReturnsDoc(o) THEN gp.docs + 1 ELSE gp.docs,
                        !.errors = IF GeneratePageReturnsDoc(o) THEN gp.errors ELSE gp.errors + 1]
    /\ last' = [op |-> "burst_single"]
    /\ UNCHANGED seen

(* _fallback_burst: one iteration of while generated < target_docs and      *)
(* attempts < max_attempts, and what follows the loop when it ends          *)
BurstFallbackStep(o) ==
    /\ gp.pc = "b_fallback"
    /\ GenFrame
    /\ LET first == IF gp.attempts = 0 THEN o ELSE gp.firstCall
       IN IF gp.generated < target_docs /\ gp.attempts < 2 * Max2(target_docs, 1)
          THEN IF GeneratePageReturnsDoc(o)
               THEN gp' = [gp EXCEPT !.attempts = gp.attempts + 1, !.firstCall = first,
                                     !.generated = gp.generated + 1, !.docs = gp.docs + 1]
               ELSE gp' = [gp EXCEPT !.pc = "b_done", !.attempts = gp.attempts + 1,
                                     !.firstCall = first,
                                     !.errors = gp.errors + FallbackErrorItems(gp.generated)]
          ELSE gp' = [gp EXCEPT !.pc = "b_done",
                                !.errors = gp.errors + FallbackErrorItems(gp.generated)]
    /\ last' = [op |-> "burst_fallback"]
    /\ UNCHANGED seen

(* the iterator is exhausted *)
BurstReturn ==
    /\ gp.pc = "b_done"
    /\ GenFrame
    /\ gp' = BurstIdle
    /\ last' = [op |-> "burst_return"]
    /\ UNCHANGED seen

NextBurst ==
    \/ \E entry \in BurstEntries : BurstEnter(entry)
    \/ BurstStreamDoc
    \/ BurstStreamRaises
    \/ \E recovered \in RecoveredCounts : BurstStreamEnds(recovered)
    \/ \E o \in GpOutcomes : BurstFallbackSingle(o)
    \/ \E o \in GpOutcomes : BurstFallbackStep(o)
    \/ BurstReturn

SpecBurst == Init /\ [][NextBurst]_vars

(* C16: one call of generate_page_burst yields at most 10 documents *)
C16_AtMostTenDocs == gp.pc \in {"b_stream", "b_single", "b_fallback", "b_done"} => gp.docs <= 10

(* C17 as stated: after a non-200 status or a stream without a document the *)
(* iterator has yielded at least one item, a document if some provider      *)
(* returned one during the fallback, otherwise one error item.              *)
C17_DocIfSomeProviderSucceeds ==
    (gp.pc = "b_done" /\ gp.via \in {"status", "empty"} /\ gp.recovered = 0) =>
      /\ gp.docs + gp.errors >= 1
      /\ SomeProviderReturned(gp.firstCall) => (gp.docs >= 1 /\ gp.errors = 0)
      /\ ~SomeProviderReturned(gp.firstCall) => (gp.docs = 0 /\ gp.errors = 1)

(* C17: after a non-200 status or a stream without a document the iterator  *)
(* has yielded at least one item: documents only, when the tolerant parse   *)
(* recovered some or the first single-generate call returned a document;    *)
(* otherwise exactly one error item and no document.                        *)
C17_AtLeastOneItem ==
    (gp.pc = "b_done" /\ gp.via \in {"status", "empty"}) =>
      /\ gp.docs + gp.errors >= 1
      /\ IF gp.recovered > 0 \/ (gp.firstCall # NoCall /\ GeneratePageReturnsDoc(gp.firstCall))
         THEN gp.docs >= 1 /\ gp.errors = 0
         ELSE gp.docs = 0 /\ gp.errors = 1

(* a non-200 status, every attempt of the single-generate call refused: one error item *)
C17_Witness ==
    /\ gp.pc = "b_done"
    /\ gp.via = "status"
    /\ gp.firstCall = <<"refused", "refused", "refused">>
    /\ gp.docs = 0
    /\ gp.errors = 1

-----------------------------------------------------------------------------
(* The providers of one generate_page attempt, llm_client.py lines 281-315, *)
(* and the OpenRouter backoff.  The configuration (which keys are set) and  *)
(* the providers' answers are inputs of the round.                          *)

OPENROUTER_BACKOFF_INITIAL == 2     \* _OPENROUTER_BACKOFF_INITIAL (default 3.0 s), scaled
OPENROUTER_BACKOFF_MAX == 4         \* _OPENROUTER_BACKOFF_MAX (default 45.0 s), scaled

ProviderNames == {"openrouter", "groq", "gemini"}

(* OPENROUTER_API_KEY, GROQ_API_KEY, GEMINI_API_KEY set; FORCE_OPENROUTER_ONLY *)
Configs == [or_key : BOOLEAN, groq_key : BOOLEAN, gemini_key : BOOLEAN, force_or : BOOLEAN]

(* providers_override: None, or the lists the callers pass *)
Overrides == {<<>>, <<"groq">>, <<"groq", "openrouter">>, <<"gemini">>}

(* whether a provider named in the override, or in the default order, is usable *)
ProviderConfigured(cfg, p) ==
    IF p = "openrouter" THEN cfg.or_key \/ cfg.force_or
    ELSE IF p = "groq" THEN cfg.groq_key /\ ~cfg.force_or
    ELSE cfg.gemini_key /\ ~cfg.force_or

(* the list providers of lines 282-299 *)
ProvidersOf(cfg, override) ==
    LET named == SelectSeq(override, LAMBDA p : ProviderConfigured(cfg, p))
        first == SelectSeq(<<"openrouter", "groq">>, LAMBDA p : ProviderConfigured(cfg, p))
    IN IF named # <<>> THEN named
       ELSE IF first # <<>> THEN first
       ELSE IF ProviderConfigured(cfg, "gemini") THEN <<"gemini">> ELSE <<>>

(* what one request to OpenRouter answers *)
OrResponses == {"200_doc", "200_bad", "429", "500", "raise"}

(* the Retry-After header of a 429: 0 when absent *)
RetryAfters == {0, 1, 9}

(* faulty variant: the delay doubles *)
GrownDelayDoubled(base) == base * 2

(* line 103: base * _OPENROUTER_BACKOFF_FACTOR, the factor being 1.5 *)
GrownDelay(base) == (base * 3) \div 2

(* _openrouter_register_rate_limit(retry_after) at time now, under the      *)
(* limits k = [initial, max]; retry_after = 0 stands for no header          *)
RegisterRateLimitWith(k, bk, retry_after, now) ==
    LET base == IF bk.delay # 0 THEN bk.delay ELSE k.initial
        asked == IF retry_after # 0 THEN retry_after ELSE GrownDelay(base)
        delay == Max2(k.initial, Min2(asked, k.max))
    IN [until |-> now + delay, delay |-> delay]

ScaledBackoff == [initial |-> OPENROUTER_BACKOFF_INITIAL, max |-> OPENROUTER_BACKOFF_MAX]

RegisterRateLimit(bk, retry_after, now) ==
    RegisterRateLimitWith(ScaledBackoff, bk, retry_after, now)

(* _openrouter_sleep_if_needed(): the seconds the caller sleeps *)
SleepIfNeeded(bk, now) ==
    IF bk.until > now THEN Min2(bk.until - now, OPENROUTER_BACKOFF_MAX) ELSE 0

(* _send_openrouter(payload): st is [now, bk, requests, slept, early] *)
SendOpenRouter(st, resp, retry_after) ==
    LET slept == SleepIfNeeded(st.bk, st.now)
        now == st.now + slept
    IN [now |-> now,
        bk |-> IF resp = "429" THEN RegisterRateLimit(st.bk, retry_after, now)
               ELSE IF resp \in {"200_doc", "200_bad"} THEN [until |-> 0, delay |-> 0]
               ELSE st.bk,
        requests |-> st.requests + 1,
        slept |-> st.slept + slept,
        early |-> st.early \/ st.bk.until > now]

(* _call_openrouter_for_page with one fallback model configured: resps are  *)
(* the answers to the request and to the retry with the fallback model      *)
CallOpenRouterForPage(st, resps, retry_after) ==
    LET s1 == SendOpenRouter(st, resps[1], retry_after)
    IN IF resps[1] = "raise" THEN [st |-> s1, doc |-> FALSE]
       ELSE IF resps[1] \in {"200_doc", "200_bad"} THEN [st |-> s1, doc |-> resps[1] = "200_doc"]
       ELSE [st |-> SendOpenRouter(s1, resps[2], retry_after), doc |-> resps[2] = "200_doc"]

(* faulty variant: the loop goes on after a provider returned a document *)
ProviderLoopBreaksNever(results) == FALSE

(* if doc: break *)
ProviderLoopBreaks(results) == results # <<>> /\ results[Len(results)]

(* for p in providers: ...; if doc: break.  acc is [st, called, results, turn] *)
RECURSIVE CallProviders(_, _, _, _, _)
CallProviders(acc, providers, returns, resps, retry_after) ==
    IF providers = <<>> \/ ProviderLoopBreaks(acc.results) THEN acc
    ELSE LET p == Head(providers)
             r == IF p = "openrouter" THEN CallOpenRouterForPage(acc.st, resps, retry_after)
                  ELSE [st |-> acc.st, doc |-> returns[p]]
         IN CallProviders([st |-> r.st, called |-> Append(acc.called, p),
                           results |-> Append(acc.results, r.doc),
                           turn |-> IF p = "openrouter" THEN acc.st.bk.until > acc.st.now
                                    ELSE acc.turn],
                          Tail(providers), returns, resps, retry_after)

(* lines 281-315 of one attempt of generate_page *)
GpProviders(cfg, override, returns, resps, retry_after) ==
    /\ clock <= MaxClock
    /\ LET order == ProvidersOf(cfg, override)
           out == CallProviders([st |-> [now |-> clock, bk |-> backoff, requests |-> 0,
                                         slept |-> 0, early |-> FALSE],
                                 called |-> <<>>, results |-> <<>>, turn |-> FALSE],
                                order, returns, resps, retry_after)
       IN /\ clock' = out.st.now
          /\ backoff' = out.st.bk
          /\ last' = [op |-> "providers", cfg |-> cfg, override |-> override,
                      called |-> out.called, results |-> out.results,
                      result |-> IF \E i \in DOMAIN out.results : out.results[i]
                                 THEN "doc" ELSE "Model generation failed",
                      or_in_backoff |-> out.turn, or_requests |-> out.st.requests,
                      slept |-> out.st.slept, early |-> out.st.early]
    /\ UNCHANGED <<files, seen, nextSeq, deqLog, scheduled, gp, gemini_review_backoff_until>>
    /\ UNCHANGED <<concVars, rlVars, catVars>>

(* OpenRouter answers the first request or fails; it does not rate-limit *)
PlainAnswers == {<<"200_doc", "200_doc">>, <<"200_bad", "200_doc">>, <<"500", "500">>}

NextProv ==
    \E cfg \in Configs, override \in Overrides, returns \in [{"groq", "gemini"} -> BOOLEAN],
       resps \in PlainAnswers :
       GpProviders(cfg, override, returns, resps, 0)

SpecProv == Init /\ [][NextProv]_vars

(* OpenRouter and Groq configured, OpenRouter first; OpenRouter may answer 429 *)
BackoffConfigs == {cfg \in Configs : cfg.or_key /\ ~cfg.force_or /\ ~cfg.gemini_key}

NextBackoff ==
    \/ Tick
    \/ \E cfg \in BackoffConfigs, returns \in [{"groq", "gemini"} -> BOOLEAN],
          resps \in [1..2 -> OrResponses], retry_after \in RetryAfters :
          ~returns["gemini"] /\ GpProviders(cfg, <<>>, returns, resps, retry_after)

SpecBackoff == Init /\ [][NextBackoff]_vars

(* the place of a provider in the default order *)
DefaultRank(p) == IF p = "openrouter" THEN 1 ELSE IF p = "groq" THEN 2 ELSE 3

(* C18: the providers of an attempt are called in the order of the list,    *)
(* OpenRouter before Groq when no override is given; every provider called  *)
(* before the last one returned nothing; the loop stops only at a result    *)
(* or at the end of the list; the attempt has a document exactly when the   *)
(* last provider called returned one, and otherwise ends in the error       *)
(* "Model generation failed".                                               *)
C18_FirstResultInOrder ==
    last.op = "providers" =>
      LET order == ProvidersOf(last.cfg, last.override)
          n == Len(last.called)
      IN /\ n <= Len(order)
         /\ last.called = SubSeq(order, 1, n)
         /\ Len(last.results) = n
         /\ \A i \in 1..(n - 1) : ~last.results[i]
         /\ n < Len(order) => last.results[n]
         /\ last.result = "doc" <=> (n > 0 /\ last.results[n])
         /\ last.result # "doc" => last.result = "Model generation failed"
         /\ last.override = <<>> =>
               \A i, j \in 1..n : i < j => DefaultRank(last.called[i]) < DefaultRank(last.called[j])
         /\ (last.override = <<>> /\ (last.cfg.or_key \/ last.cfg.force_or)) =>
               last.called[1] = "openrouter"

(* OpenRouter returned nothing, Groq was called next and its document taken *)
C18_Witness ==
    /\ last.op = "providers"
    /\ last.override = <<>>
    /\ last.called = <<"openrouter", "groq">>
    /\ last.results = <<FALSE, TRUE>>
    /\ last.result = "doc"

(* C19: when OpenRouter's turn comes while its backoff deadline lies ahead, *)
(* the attempt sends it no request and does not wait for it, and goes on to *)
(* the next provider of the list.                                           *)
C19_ProviderInBackoffIsSkipped ==
    (last.op = "providers" /\ last.or_in_backoff) =>
      /\ last.or_requests = 0
      /\ last.slept = 0
      /\ last.cfg.groq_key => \E i \in DOMAIN last.called : last.called[i] = "groq"

-----------------------------------------------------------------------------
(* _maybe_run_compliance_review on the reviewer's answer as it arrives: a   *)
(* JSON value that is a dict or not; in a dict, "ok" is True, False, absent *)
(* or another falsy value (0), "issues" is a list of issues given by their  *)
(* severity ("not_a_dict" for an entry that is no dict), and each of the    *)
(* keys doc, fixed_doc, corrected_doc, patched_doc holds a dict or not.     *)

OkValues == {"True", "False", "missing", "0"}
Severities == {"block", "Block", "warn", "not_a_dict"}
IssueLists == UNION {[1..n -> Severities] : n \in 0..2}
DocKeys == <<"doc", "fixed_doc", "corrected_doc", "patched_doc">>

RawReviews ==
    [is_dict : {TRUE}, ok : OkValues, issues : IssueLists,
     doc : {NoDoc, 1}, fixed_doc : {NoDoc, 2}, corrected_doc : {NoDoc, NumDocs},
     patched_doc : {NoDoc, 1}]

NotADict == [is_dict |-> FALSE, ok |-> "missing", issues |-> <<>>, doc |-> NoDoc,
             fixed_doc |-> NoDoc, corrected_doc |-> NoDoc, patched_doc |-> NoDoc]

(* faulty variant: the severity is compared as written *)
SeverityAsWritten(sev) == sev

(* str(issue.get("severity", "")).lower() *)
SeverityLower(sev) == IF sev = "Block" THEN "block" ELSE sev

(* the first of the four keys that holds a dict *)
RECURSIVE FirstCorrected(_, _)
FirstCorrected(raw, keys) ==
    IF keys = <<>> THEN NoDoc
    ELSE IF raw[Head(keys)] # NoDoc THEN raw[Head(keys)]
    ELSE FirstCorrected(raw, Tail(keys))

(* the reviewer's answer as MaybeRunComplianceReview reads it *)
ReviewOf(raw) ==
    IF ~raw.is_dict THEN NotRun
    ELSE [usable |-> TRUE,
          ok |-> IF raw.ok = "False" THEN "false" ELSE IF raw.ok = "True" THEN "true" ELSE "missing",
          has_block |-> \E i \in DOMAIN raw.issues :
                           raw.issues[i] # "not_a_dict" /\ SeverityLower(raw.issues[i]) = "block",
          corrected |-> FirstCorrected(raw, DocKeys),
          normalizes |-> TRUE]

(* _maybe_run_compliance_review(doc, brief, category_note) with the review active *)
ReviewCall(raw) ==
    /\ last' = [op |-> "review_call", raw |-> raw, out |-> MaybeRunComplianceReview(ReviewOf(raw))]
    /\ UNCHANGED qVars
    /\ UNCHANGED <<concVars, genVars, rlVars, catVars>>

NextRev == \E raw \in RawReviews \cup {NotADict} : ReviewCall(raw)

SpecRev == Init /\ [][NextRev]_vars

(* C20: for a review record, overall_ok is false exactly when ok is False   *)
(* itself, or an issue of severity block comes with no corrected doc under  *)
(* any of the four keys; and with overall_ok false no corrected doc is      *)
(* returned.                                                                *)
C20_OverallOk ==
    (last.op = "review_call" /\ last.raw.is_dict) =>
      LET raw == last.raw
          block == \E i \in DOMAIN raw.issues : raw.issues[i] \in {"block", "Block"}
          none == raw.doc = NoDoc /\ raw.fixed_doc = NoDoc /\ raw.corrected_doc = NoDoc
                  /\ raw.patched_doc = NoDoc
      IN /\ ~last.out.review_ok <=> (raw.ok = "False" \/ (block /\ none))
         /\ ~last.out.review_ok => last.out.corrected = NoDoc
         /\ (last.out.review_ok /\ ~none) => last.out.corrected # NoDoc

(* ok is true, an issue of severity Block, no corrected doc: not ok *)
C20_Witness ==
    /\ last.op = "review_call"
    /\ last.raw.ok = "True"
    /\ last.raw.issues = <<"warn", "Block">>
    /\ FirstCorrected(last.raw, DocKeys) = NoDoc
    /\ ~last.out.review_ok
    /\ last.out.corrected = NoDoc
-----------------------------------------------------------------------------
(* The reviewer's backoff, llm_client.py lines 1408-1527 and 1612-1635.     *)
(* The configuration says which reviewer COMPLIANCE_PROVIDER names and      *)
(* whether each reviewer is configured (enabled flag, key, model).  The     *)
(* Gemini reviewer answers each request of one call by an exception, a      *)
(* status other than 200, or 200 with an unusable body, an approving review *)
(* or a blocking review; the OpenRouter reviewer returns a review or None.  *)

GEMINI_REVIEW_RETRY_ATTEMPTS == 2
GEMINI_REVIEW_RETRY_DELAY == 1    \* GEMINI_REVIEW_RETRY_DELAY (default 1.5 s), in ticks
GEMINI_REVIEW_BACKOFF_SECS == 2   \* GEMINI_REVIEW_BACKOFF_SECS (default 300 s), in ticks

ReviewConfigs ==
    [compliance_provider : {"gemini", "openrouter"}, gemini_review : BOOLEAN,
     openrouter_review : BOOLEAN]
GeminiAnswers == {"raise", "429", "503", "500", "200_bad", "200_approve", "200_block"}
ReviewAnswers == {"none", "approve", "block"}

(* _gemini_review_active() *)
GeminiReviewActive(cfg, until, now) ==
    IF until # 0 /\ now < until THEN FALSE ELSE cfg.gemini_review

(* _mark_gemini_review_backoff() *)
MarkGeminiReviewBackoff(until, now) ==
    IF GEMINI_REVIEW_BACKOFF_SECS <= 0 THEN until
    ELSE Max2(until, now + GEMINI_REVIEW_BACKOFF_SECS)

(* _review_provider() *)
ReviewProvider(cfg, until, now) ==
    IF cfg.compliance_provider = "openrouter"
    THEN IF cfg.openrouter_review THEN "openrouter"
         ELSE IF GeminiReviewActive(cfg, until, now) THEN "gemini"
         ELSE "openrouter"
    ELSE "gemini"

(* the request loop of _call_gemini_review, lines 1468-1497: st is          *)
(* [now, until, requests, limited], limited says a 429 or 503 was answered  *)
RECURSIVE GeminiReviewAttempt(_, _, _)
GeminiReviewAttempt(st, resps, attempt) ==
    LET resp == resps[attempt]
        sent == [st EXCEPT !.requests = @ + 1]
        marked == [sent EXCEPT !.until = MarkGeminiReviewBackoff(st.until, st.now),
                               !.limited = TRUE]
        after == IF resp \in {"429", "503"} THEN marked ELSE sent
        slept == [after EXCEPT !.now = @ + GEMINI_REVIEW_RETRY_DELAY]
    IN IF resp \in {"raise", "429", "503"}
       THEN IF attempt < GEMINI_REVIEW_RETRY_ATTEMPTS
            THEN GeminiReviewAttempt(slept, resps, attempt + 1)
            ELSE [st |-> after, answer |-> "none"]
       ELSE [st |-> sent,
             answer |-> IF resp = "200_approve" THEN "approve"
                        ELSE IF resp = "200_block" THEN "block" ELSE "none"]

(* _call_gemini_review(doc, brief, category_note) *)
CallGeminiReview(cfg, st, resps) ==
    IF ~GeminiReviewActive(cfg, st.until, st.now) THEN [st |-> st, answer |-> "none"]
    ELSE GeminiReviewAttempt(st, resps, 1)

(* _call_openrouter_review(doc, brief, category_note) *)
CallOpenRouterReview(cfg, or_answer) == IF ~cfg.openrouter_review THEN "none" ELSE or_answer

(* the review dict an answer stands for *)
ReviewOfAnswer(answer) ==
    IF answer = "none" THEN NotRun
    ELSE [usable |-> TRUE, ok |-> IF answer = "block" THEN "false" ELSE "true",
          has_block |-> FALSE, corrected |-> NoDoc, normalizes |-> TRUE]

(* lines 1617-1635 of _maybe_run_compliance_review: the reviewer's answer,  *)
(* "none" when the review is skipped                                        *)
ReviewAnswerFor(cfg, st, resps, or_answer) ==
    LET provider == ReviewProvider(cfg, st.until, st.now)
    IN IF provider = "openrouter"
       THEN [st |-> st,
             answer |-> IF ~cfg.openrouter_review THEN "none"
                        ELSE CallOpenRouterReview(cfg, or_answer)]
       ELSE IF ~GeminiReviewActive(cfg, st.until, st.now) THEN [st |-> st, answer |-> "none"]
       ELSE LET g == CallGeminiReview(cfg, st, resps)
            IN IF g.answer = "none" /\ cfg.openrouter_review
               THEN [st |-> g.st, answer |-> CallOpenRouterReview(cfg, or_answer)]
               ELSE g

(* one call of _maybe_run_compliance_review(doc, brief, category_note) *)
MaybeRunComplianceReviewCall(cfg, resps, or_answer) ==
    /\ clock <= MaxClock
    /\ LET st == [now |-> clock, until |-> gemini_review_backoff_until, requests |-> 0,
                  limited |-> FALSE]
           r == ReviewAnswerFor(cfg, st, resps, or_answer)
           review == ReviewOfAnswer(r.answer)
       IN /\ clock' = r.st.now
          /\ gemini_review_backoff_until' = r.st.until
          /\ last' = [op |-> "maybe_review", cfg |-> cfg, resps |-> resps,
                      in_backoff |-> st.until # 0 /\ st.now < st.until,
                      limited |-> r.st.limited, requests |-> r.st.requests,
                      review |-> review, out |-> MaybeRunComplianceReview(review)]
    /\ UNCHANGED <<files, seen, nextSeq, deqLog, scheduled, gp, backoff>>
    /\ UNCHANGED <<concVars, rlVars, catVars>>

NextRevBackoff ==
    \/ Tick
    \/ \E cfg \in ReviewConfigs, resps \in [1..GEMINI_REVIEW_RETRY_ATTEMPTS -> GeminiAnswers],
          or_answer \in ReviewAnswers :
          MaybeRunComplianceReviewCall(cfg, resps, or_answer)

SpecRevBackoff == Init /\ [][NextRevBackoff]_vars

(* C21: with Gemini as the only reviewer, a call in which the reviewer      *)
(* answered 429 or 503 leaves a backoff deadline ahead of the clock, and a  *)
(* call in which that happened, or which began before the deadline, attaches *)
(* no review record and treats the document as approved.                    *)
C21_ReviewFailsOpen ==
    (/\ last.op = "maybe_review"
     /\ last.cfg.compliance_provider = "gemini"
     /\ ~last.cfg.openrouter_review) =>
        /\ last.limited => clock < gemini_review_backoff_until
        /\ (last.limited \/ last.in_backoff) =>
              (~last.review.usable /\ last.out.review_ok)
-----------------------------------------------------------------------------
(* take(token) and dequeue() on a queue that may hold unparseable records,  *)
(* api/prefetch.py lines 139-169, 244-287 and 352-373, one caller.          *)
(*                                                                          *)
(* A token is "<b64(kind:ident:exp)>.<b64(hmac)>": its payload and the      *)
(* signature it carries.  SignPayload stands for HMAC-SHA256 under the      *)
(* server's secret, an injective function of the payload (collisions are    *)
(* not modelled).  An identifier is a file name with a prefix in front:     *)
(* none, "./" (the same file through a path with a separator) or ".\"; the  *)
(* empty name is <<>>.                                                      *)

NoName == <<>>
TokenKinds == {"file", "redis"}
Prefixes == {"", "./", ".\\"}
Expiries == {0, MaxClock}

(* _sign_payload(payload) *)
SignPayload(payload) == <<"hmac", payload.kind, payload.ident, payload.exp>>

(* _make_token(kind, ident, exp) *)
MakeToken(kind, ident, exp) ==
    LET payload == [kind |-> kind, ident |-> ident, exp |-> exp]
    IN [payload |-> payload, sig |-> SignPayload(payload)]

(* a token whose expiry was rewritten after signing *)
ExtendedToken(token) == [token EXCEPT !.payload.exp = MaxClock]

(* the tokens a caller presents for a file name: the ones peek() made, the  *)
(* same for another kind or an identifier with a prefix, and one changed    *)
(* after signing                                                            *)
TokensFor(n) ==
    {MakeToken(kind, [prefix |-> "", name |-> n], exp) : kind \in TokenKinds, exp \in Expiries}
    \cup {MakeToken("file", [prefix |-> pre, name |-> n], MaxClock) : pre \in Prefixes}
    \cup {ExtendedToken(MakeToken("file", [prefix |-> "", name |-> n], 0))}

(* _parse_token(token): the payload, or None *)
ParseTokenFails(token, now) ==
    \/ token.sig # SignPayload(token.payload)
    \/ token.payload.exp < now

(* faulty variant: identifiers with path separators are let through *)
NameRejectedNever(ident) == ident.name = NoName

(* take(), line 269: if not name or "/" in name or "\\" in name *)
NameRejected(ident) == ident.name = NoName \/ ident.prefix # ""

(* PREFETCH_DIR / name: the queue file the path leads to, NoName when the   *)
(* path leads to no queue file                                              *)
PathOf(ident) == IF ident.prefix \in {"", "./"} THEN ident.name ELSE NoName

(* take(token), file backend: whether a document is returned, the record,   *)
(* and the files afterwards                                                 *)
TakeResult(fs, token, now) ==
    LET ident == token.payload.ident
        path == PathOf(ident)
        miss == [hit |-> FALSE, name |-> NoName, fs |-> fs]
    IN IF ParseTokenFails(token, now) THEN miss
       ELSE IF token.payload.kind # "file" THEN miss
       ELSE IF NameRejected(ident) THEN miss
       ELSE IF path \notin DOMAIN fs THEN miss
       ELSE IF ~fs[path].parseable THEN [miss EXCEPT !.fs = RemoveFiles(fs, {path})]
       ELSE [hit |-> TRUE, name |-> path, fs |-> RemoveFiles(fs, {path})]

(* prefetch.take(token), called by the dispatcher with a request's token *)
Take(token) ==
    /\ \E r \in {TakeResult(files, token, clock)} :
          /\ files' = r.fs
          /\ delivered' = IF r.hit THEN Append(delivered, <<0, files[r.name].seq>>)
                          ELSE delivered
          /\ last' = [op |-> "take", token |-> token, hit |-> r.hit,
                      ret |-> IF r.hit THEN files[r.name] ELSE None,
                      now |-> clock, filesBefore |-> files]
    /\ UNCHANGED <<clock, seen, nextSeq, deqLog, scheduled, thr>>
    /\ UNCHANGED <<genVars, rlVars, catVars>>

(* the text of a queue file stops being JSON: path.write_text() of the      *)
(* review worker truncates the file before it writes the new text, and a    *)
(* reader that comes in between, or after a write that was cut short, finds *)
(* a text json.loads refuses                                                *)
RecordDamaged(name) ==
    /\ name \in DOMAIN files
    /\ files[name].parseable
    /\ files' = [files EXCEPT ![name].parseable = FALSE]
    /\ last' = [op |-> "damaged", name |-> name]
    /\ UNCHANGED <<clock, seen, nextSeq, deqLog, scheduled>>
    /\ UNCHANGED <<concVars, genVars, rlVars, catVars>>

NextTake ==
    \/ Tick
    \/ \E d \in Docs : Enqueue(d)
    \/ \E name \in Names : RecordDamaged(name)
    \/ \E n \in DOMAIN files \cup {NoName, <<MaxClock, NumUids>>} :
          \E token \in TokensFor(n) : Take(token)
    \/ Dequeue

SpecTake == Init /\ [][NextTake]_vars

(* the conditions under which take() looks at a record *)
TokenAccepted(token, now, fs) ==
    /\ token.sig = SignPayload(token.payload)
    /\ token.payload.exp >= now
    /\ token.payload.kind = "file"
    /\ token.payload.ident.prefix = ""
    /\ token.payload.ident.name \in DOMAIN fs

(* C22 as stated: a take() that returns nil leaves the queue unchanged *)
C22_NilLeavesQueueUnchanged ==
    (last.op = "take" /\ ~last.hit) => files = last.filesBefore

(* C22: take(token) returns a document exactly when the token is signed by  *)
(* the server, not expired, of kind file, names a file without a path       *)
(* separator, and that record exists and parses; it returns that record and *)
(* removes it, and no record is returned twice by take() or dequeue().  A   *)
(* record that exists but does not parse is removed and nil is returned;    *)
(* in every other case nil is returned and the queue is unchanged.          *)
C22_TakeRule ==
    /\ (last.op = "take") =>
         LET fs == last.filesBefore
             name == last.token.payload.ident.name
             ok == TokenAccepted(last.token, last.now, fs)
         IN /\ last.hit <=> (ok /\ fs[name].parseable)
            /\ last.hit => (last.ret = fs[name] /\ files = RemoveFiles(fs, {name}))
            /\ (ok /\ ~fs[name].parseable) => files = RemoveFiles(fs, {name})
            /\ ~ok => files = fs
    /\ \A i \in DOMAIN delivered :
         /\ \A j \in DOMAIN delivered : delivered[i][2] = delivered[j][2] => i = j
         /\ \A j \in DOMAIN deqLog : delivered[i][2] # deqLog[j]
         /\ \A n \in DOMAIN files : files[n].seq # delivered[i][2]

(* the second of two records is taken with a token that expires at this    *)
(* very second                                                              *)
C22_Witness ==
    /\ last.op = "take"
    /\ last.hit
    /\ last.token.payload.exp = last.now
    /\ Size(last.filesBefore) = 2
    /\ last.ret.seq = 2
    /\ \E n \in DOMAIN files : files[n].seq = 1

-----------------------------------------------------------------------------
(* dequeue() on a queue that may hold unparseable records, one caller *)

NextDq ==
    \/ Tick
    \/ \E d \in Docs : Enqueue(d)
    \/ \E name \in Names : RecordDamaged(name)
    \/ Dequeue

SpecDq == Init /\ [][NextDq]_vars

(* the positions of the listing whose record parses *)
ParseablePositions(fs) == {i \in 1..Size(fs) : fs[ListFiles(fs)[i]].parseable}

(* C23: a dequeue() returns the first record of the sorted listing that     *)
(* parses and removes it together with every unparseable record before it,  *)
(* leaving the records behind it alone; when no record parses it returns    *)
(* nil and has removed every record.                                        *)
C23_DequeueSkipsUnparseable ==
    [][(last'.op = "dequeue") =>
         LET order == ListFiles(files)
             good == ParseablePositions(files)
         IN IF good = {}
            THEN ~last'.hit /\ files' = <<>>
            ELSE LET k == CHOOSE i \in good : \A j \in good : i <= j
                 IN /\ last'.hit
                    /\ last'.ret = files[order[k]]
                    /\ files' = RemoveFiles(files, {order[i] : i \in 1..k})]_vars

(* the head of a queue of two was unparseable: the second record is served  *)
(* and the queue is empty afterwards                                        *)
C23_Witness ==
    /\ last.op = "dequeue"
    /\ last.hit
    /\ last.sizeBefore = 2
    /\ last.ret.seq = 2
    /\ deqLog = <<2>>
    /\ files = <<>>

-----------------------------------------------------------------------------
(* The top-up job, api/main.py lines 285-395, with its caller in the        *)
(* dispatcher (lines 750-772).  PREFETCH_LOW_WATER, PREFETCH_FILL_TO and    *)
(* PREFETCH_REVIEW_BATCH are read from the environment; the job is run      *)
(* under two settings: the one of the dispatcher's specifications, where    *)
(* low water + batch reaches fill-to, and one in the proportions of the     *)
(* defaults (55, 75, 3), where batch < low water and low water + batch <    *)
(* fill-to.  The job is one thread; its workers only run the burst call.    *)
(* A burst result is the list of items one call yields, or the exception    *)
(* it raises.  An item is an error item, a document with a signature not    *)
(* seen before, or a document with the signature added last.                *)

PREFETCH_MAX_WORKERS == 2
MaxConsumed == 1      \* records a consumer dequeues while the job runs

DefaultLikeKnobs == [low_water |-> 3, fill_to |-> 5, review_batch |-> 2]
KnobSettings == {ScaledKnobs, DefaultLikeKnobs}

ItemKinds == {"error", "fresh", "dup"}
ItemSeqs == UNION {[1..n -> ItemKinds] : n \in 1..MaxBurst}
Raised == <<"raised">>

(* the document of an item when it comes to be enqueued as the seq-th record *)
DocOfItem(kind, data, seq) ==
    IF kind = "dup" /\ data # <<>> THEN 2 * data[Len(data)].sig - 1
    ELSE 2 * (NumSigs + seq) - 1

(* max(5, target * 3) *)
MaxFailures(target) == Max2(5, target * 3)

(* _submit_available_jobs(): the number of futures afterwards *)
SubmitAvailableJobs(futures, size, target, failures) ==
    IF failures < MaxFailures(target)
    THEN Max2(futures, Min2(PREFETCH_MAX_WORKERS, target - size))
    ELSE futures

(* failures += 1; total is the ghost count of the failures of the round,    *)
(* counted up to the budget                                                 *)
CountFailure(st, target) ==
    [st EXCEPT !.failures = @ + 1, !.total = Min2(@ + 1, MaxFailures(target))]

(* faulty variant: a burst call that raises is not counted as a failure *)
CountRaisedNever(st, target) == st

(* lines 359-362: except Exception: failures += 1 *)
CountRaised(st, target) == CountFailure(st, target)

(* faulty variant: a page is enqueued whatever the queue size *)
QueueAtTargetNever(fs, target) == FALSE

(* line 344: if prefetch.size() >= target: continue *)
QueueAtTarget(fs, target) == Size(fs) >= target

(* lines 339-358 for one page of a finished burst; st is                    *)
(* [fs, data, seq, failures, total, pending, calls, enqueued, raised]: the   *)
(* queue files, the dedupe store, the ordinal of the next record, the       *)
(* failure count, the failures of the round in all (ghost), pending_paths,  *)
(* the calls of _schedule_prefetch_review so far with their outcome, the    *)
(* names enqueued by the job, and whether an exception left the loop over   *)
(* the pages                                                                *)
ProcessPage(st, kind, k, target, now) ==
    IF kind = "error" THEN CountFailure(st, target)
    ELSE IF QueueAtTarget(st.fs, target) THEN st
    ELSE LET d == DocOfItem(kind, st.data, st.seq)
             name == <<now, NumUids + st.seq>>
         IN IF EnqueueRefused(st.fs, st.data, d)
            THEN CountFailure(st, target)
            ELSE LET fs == [n \in (DOMAIN st.fs) \cup {name} |->
                              IF n = name THEN NewRecord(d, now, st.seq) ELSE st.fs[n]]
                     pending == Append(st.pending, name)
                     rng == {pending[i] : i \in DOMAIN pending}
                     outcome == SchedulePrefetchReviewOutcome(rng, FALSE, fs)
                     in == [st EXCEPT !.fs = fs, !.data = Add(st.data, SignatureForDoc(d), now),
                                      !.seq = @ + 1, !.failures = 0, !.pending = pending,
                                      !.enqueued = Append(@, name)]
                 IN IF Len(pending) < k.review_batch THEN in
                    ELSE IF outcome = "raised"
                         THEN [in EXCEPT !.calls = Append(@, [paths |-> pending, outcome |-> outcome]),
                                         !.failures = @ + 1,
                                         !.total = Min2(@ + 1, MaxFailures(target)),
                                         !.raised = TRUE]
                         ELSE [in EXCEPT !.calls = Append(@, [paths |-> pending, outcome |-> outcome]),
                                         !.pending = <<>>]

(* for page in fut.result(): ..., with the except clause of lines 359-362 *)
RECURSIVE ProcessPages(_, _, _, _, _)
ProcessPages(st, items, k, target, now) ==
    IF items = <<>> \/ st.raised THEN [st EXCEPT !.raised = FALSE]
    ELSE ProcessPages(ProcessPage(st, Head(items), k, target, now), Tail(items), k, target, now)

(* one finished future: its result is a list of items, or it raises *)
ProcessFuture(st, result, k, target, now) ==
    IF result = Raised THEN CountRaised(st, target)
    ELSE ProcessPages(st, result, k, target, now)

(* the job before it is called, under the knobs k *)
IdleJob(k) ==
    [pc |-> "idle", knobs |-> k, min_fill |-> 0, target |-> 0, failures |-> 0, total |-> 0,
     pending |-> <<>>, futures |-> 0, calls |-> <<>>, enqueued |-> <<>>, ret |-> "none"]

InitTopUp ==
    /\ InitQ
    /\ thr = [t \in Threads |-> IdleThread]
    /\ delivered = <<>>
    /\ backoff = [until |-> 0, delay |-> 0]
    /\ gemini_review_backoff_until = 0
    /\ store = [k \in ClientKeys |-> NoEntry]
    /\ rlAllowed = <<>>
    /\ catIdx = <<>>
    /\ catHist = [calls |-> 0, raw |-> [k \in UserKeys |-> 0],
                  cursor |-> [k \in NormalKeys |-> [idx |-> -1, discarded |-> FALSE]]]
    /\ \E k \in KnobSettings : gp = IdleJob(k)
    /\ last = [op |-> "init"]

(* the values of min_fill the callers pass: PREFETCH_FILL_TO at startup,    *)
(* _prefetch_target_size(size) after a hit that left size <= low water      *)
MinFills(k) == {k.fill_to} \cup {TargetSizeWith(k, n) : n \in 0..k.low_water}

TopUpFrame ==
    /\ UNCHANGED <<clock, deqLog, scheduled, backoff, gemini_review_backoff_until>>
    /\ UNCHANGED <<concVars, rlVars, catVars>>

(* the job returns: the cause, and the queue size it last read *)
TopUpReturn(job, cause) == [job EXCEPT !.pc = "done", !.ret = cause]

(* _top_up_prefetch(brief, min_fill), lines 289-292 *)
TopUpCall(min_fill, llm_available) ==
    /\ gp.pc = "idle"
    /\ gp' = IF llm_available THEN [gp EXCEPT !.pc = "head", !.min_fill = min_fill]
             ELSE TopUpReturn([gp EXCEPT !.min_fill = min_fill], "llm_unavailable")
    /\ last' = [op |-> "topup_call", min_fill |-> min_fill, sizeBefore |-> Size(files)]
    /\ UNCHANGED <<files, seen, nextSeq>>
    /\ TopUpFrame

(* the head of the outer loop, lines 298-330: return when the queue is      *)
(* healthy, else open a round and submit the first jobs                     *)
TopUpHead ==
    /\ gp.pc = "head"
    /\ LET current == Size(files)
           target == Max2(gp.min_fill, TargetSizeWith(gp.knobs, current))
       IN /\ gp' = IF current > gp.knobs.low_water /\ current >= target
                   THEN TopUpReturn([gp EXCEPT !.target = target], "healthy")
                   ELSE [gp EXCEPT !.pc = "round", !.target = target, !.failures = 0,
                                   !.total = 0, !.pending = <<>>,
                                   !.futures = SubmitAvailableJobs(0, current, target, 0)]
          /\ last' = [op |-> "topup_head", current |-> current, target |-> target]
    /\ UNCHANGED <<files, seen, nextSeq>>
    /\ TopUpFrame

(* the inner loop is left, lines 331 and 333-335 *)
RoundOver(job, fs) ==
    /\ job.futures = 0
    /\ ~(Size(fs) < job.target /\ job.failures < MaxFailures(job.target))

(* one turn of the inner loop, lines 331-369, when a future finishes: its   *)
(* pages are handled, and jobs are submitted again or, with the failure     *)
(* budget used up, the other futures are dropped.  last.turn tells a turn   *)
(* on a raising burst from the turn before it.                              *)
TopUpWait(result) ==
    /\ gp.pc = "round"
    /\ ~RoundOver(gp, files)
    /\ LET futures == IF gp.futures = 0
                      THEN SubmitAvailableJobs(0, Size(files), gp.target, gp.failures)
                      ELSE gp.futures
       IN /\ futures > 0
          /\ \E st \in {ProcessFuture([fs |-> files, data |-> seen, seq |-> nextSeq,
                                failures |-> gp.failures, total |-> gp.total,
                                pending |-> gp.pending,
                                calls |-> gp.calls, enqueued |-> gp.enqueued,
                                raised |-> FALSE],
                               result, gp.knobs, gp.target, clock)} :
             /\ files' = st.fs
             /\ seen' = st.data
             /\ nextSeq' = st.seq
             /\ gp' = [gp EXCEPT !.failures = st.failures, !.total = st.total,
                              !.pending = st.pending,
                              !.calls = st.calls, !.enqueued = st.enqueued,
                              !.futures = IF st.failures >= MaxFailures(gp.target) THEN 0
                                          ELSE SubmitAvailableJobs(futures - 1, Size(st.fs), gp.target,
                                                                   st.failures)]
          /\ last' = [op |-> "topup_wait", result |-> result, sizeBefore |-> Size(files),
                      target |-> gp.target,
                      turn |-> IF result = Raised /\ last.op = "topup_wait"
                                  /\ last.result = Raised
                               THEN 1 - last.turn ELSE 0]
    /\ TopUpFrame

(* after the round, lines 370-390: the pending paths are flushed, then the  *)
(* job returns or goes round again.  An exception of the flush leaves the   *)
(* function through the except clause of line 391.                          *)
TopUpFlush ==
    /\ gp.pc = "round"
    /\ RoundOver(gp, files)
    /\ LET rng == {gp.pending[i] : i \in DOMAIN gp.pending}
           outcome == SchedulePrefetchReviewOutcome(rng, FALSE, files)
           calls == IF gp.pending # <<>>
                    THEN Append(gp.calls, [paths |-> gp.pending, outcome |-> outcome])
                    ELSE gp.calls
           job == [gp EXCEPT !.calls = calls]
       IN /\ gp' = IF gp.pending # <<>> /\ outcome = "raised" THEN TopUpReturn(job, "exception")
                   ELSE IF Size(files) >= gp.target
                        THEN TopUpReturn([job EXCEPT !.pending = <<>>], "complete")
                   ELSE IF gp.failures >= MaxFailures(gp.target)
                        THEN TopUpReturn([job EXCEPT !.pending = <<>>], "gave_up")
                   ELSE [job EXCEPT !.pc = "head", !.pending = <<>>]
          /\ last' = [op |-> "topup_flush", size |-> Size(files)]
    /\ UNCHANGED <<files, seen, nextSeq>>
    /\ TopUpFrame

(* another producer (the prewarm of the startup, /prefetch/fill) enqueues a *)
(* new document before the job is called                                    *)
Prefill ==
    /\ gp.pc = "idle"
    /\ Size(files) < gp.knobs.low_water + 1
    /\ LET d == DocOfItem("fresh", seen, nextSeq)
           name == <<clock, NumUids + nextSeq>>
       IN /\ ~EnqueueRefused(files, seen, d)
          /\ files' = [n \in (DOMAIN files) \cup {name} |->
                         IF n = name THEN NewRecord(d, clock, nextSeq) ELSE files[n]]
          /\ seen' = Add(seen, SignatureForDoc(d), clock)
          /\ nextSeq' = nextSeq + 1
          /\ last' = [op |-> "prefill", ret |-> name]
    /\ UNCHANGED gp
    /\ TopUpFrame

(* a consumer's dequeue() while the job runs *)
ConsumerDequeue ==
    /\ gp.pc \in {"head", "round"}
    /\ Len(deqLog) < MaxConsumed
    /\ Dequeue

BurstOutcomes == ItemSeqs \cup {Raised}

NextTopUp ==
    \/ Prefill
    \/ \E min_fill \in MinFills(gp.knobs), llm_available \in BOOLEAN :
          TopUpCall(min_fill, llm_available)
    \/ TopUpHead
    \/ \E result \in BurstOutcomes : TopUpWait(result)
    \/ TopUpFlush
    \/ ConsumerDequeue

SpecTopUp == InitTopUp /\ [][NextTopUp]_vars

(* the job has returned, by a return statement or through the except clause *)
(* of line 391, with failures left in its budget                            *)
ReturnedWithinBudget ==
    /\ gp.pc = "done"
    /\ gp.ret \in {"healthy", "complete", "exception"}
    /\ gp.failures < MaxFailures(gp.target)

(* C26: when the top-up job has returned without using up its failure      *)
(* budget, the queue size is at least max(min_fill, targetSize(current))    *)
(* and above PREFETCH_LOW_WATER.                                            *)
C26_ReturnMeansFilled ==
    ReturnedWithinBudget =>
        /\ Size(files) >= gp.target
        /\ Size(files) > gp.knobs.low_water

(* the job has enqueued and ended within its budget: the queue is at target *)
EndsAtTarget ==
    (ReturnedWithinBudget /\ gp.ret # "healthy" /\ gp.enqueued # <<>>) => Size(files) = gp.target

(* C27: a step of the job enqueues only while the queue is below the target *)
(* of the round, so the queue is never above the target after an enqueue,   *)
(* whatever the finished bursts hold, and is left alone once it is at the   *)
(* target; and when the job, having enqueued, ends within its failure       *)
(* budget, the queue size is the target.                                    *)
C27_NeverAboveTarget ==
    /\ [][(last'.op = "topup_wait") =>
            /\ Size(files') >= Size(files)
            /\ Size(files') > Size(files) =>
                 (Size(files) < gp.target /\ Size(files') <= gp.target)
            /\ (Size(files) >= gp.target) => files' = files]_vars
    /\ []EndsAtTarget

(* a burst of two new documents finishes with the queue one below the       *)
(* target: the first is enqueued, the second is discarded                   *)
C27_Witness ==
    /\ last.op = "topup_wait"
    /\ last.result = <<"fresh", "fresh">>
    /\ last.sizeBefore = gp.target - 1
    /\ Size(files) = gp.target
    /\ Len(gp.pending) = 1
    /\ gp.calls = <<>>

(* the calls of _schedule_prefetch_review that took the record name over *)
CallsThatQueued(name) ==
    {c \in DOMAIN gp.calls :
        /\ gp.calls[c].outcome = "queued"
        /\ \E i \in DOMAIN gp.calls[c].paths : gp.calls[c].paths[i] = name}

(* C28: when the top-up job has ended, every record it enqueued was handed  *)
(* to review scheduling by exactly one call, and that call queued it.       *)
C28_EachRecordScheduledOnce ==
    (gp.pc = "done") =>
        \A i \in DOMAIN gp.enqueued : Cardinality(CallsThatQueued(gp.enqueued[i])) = 1

-----------------------------------------------------------------------------
(* The top-up job on its own: every burst call returns (each turn of the    *)
(* inner loop that waits for a future is taken in the end), and no consumer *)
(* dequeues while the job runs.                                             *)

NextTopUpAlone ==
    \/ Prefill
    \/ \E min_fill \in MinFills(gp.knobs), llm_available \in BOOLEAN :
          TopUpCall(min_fill, llm_available)
    \/ TopUpHead
    \/ \E result \in BurstOutcomes : TopUpWait(result)
    \/ TopUpFlush

SpecTopUpAlone ==
    /\ InitTopUp
    /\ [][NextTopUpAlone]_vars
    /\ WF_vars(TopUpHead)
    /\ WF_vars(\E result \in BurstOutcomes : TopUpWait(result))
    /\ WF_vars(TopUpFlush)

(* C29 as stated: a job that is still running, or ended without giving up,  *)
(* has had fewer than max(5, target * 3) failures in its round in all.      *)
C29_GivesUpAfterTotalFailures ==
    (gp.pc = "round" \/ (gp.pc = "done" /\ gp.ret \in {"complete", "exception"}))
        => (gp.total < MaxFailures(gp.target) \/ gp.failures >= MaxFailures(gp.target))

(* C29: the job always ends once it is called; it gives up only when        *)
(* max(5, target * 3) failures have come since the last accepted enqueue of *)
(* the round; a job that ends otherwise has the queue at its target.        *)
C29_JobTerminates ==
    /\ (gp.pc = "head") ~> (gp.pc = "done")
    /\ []((gp.pc = "done" /\ gp.ret = "gave_up") => gp.failures >= MaxFailures(gp.target))
    /\ []((gp.pc = "done" /\ gp.ret \in {"complete", "exception"}
           /\ gp.failures < MaxFailures(gp.target)) => Size(files) >= gp.target)

(* the job gave up on a queue below its target *)
C29_Witness ==
    /\ gp.pc = "done"
    /\ gp.ret = "gave_up"
    /\ gp.failures = MaxFailures(gp.target)
    /\ Size(files) < gp.target

-----------------------------------------------------------------------------
(* A prefetch hit of POST /generate and the background top-up it schedules, *)
(* when every burst yields new documents only and the LLM is configured.    *)

FreshSeqs == {items \in ItemSeqs : \A i \in DOMAIN items : items[i] = "fresh"}

(* main.py lines 747-773 under the knobs k: the head record is served and,  *)
(* if the queue is left at or below the low water mark, the top-up task is  *)
(* added with min_fill = _prefetch_target_size(prefetch.size())             *)
HitThenSchedule ==
    LET r == DequeueResult(files)
        after == FilesAfterDequeue(files)
    IN /\ gp.pc = "idle"
       /\ scheduled = {}
       /\ deqLog = <<>>
       /\ r.hit
       /\ files' = after
       /\ deqLog' = Append(deqLog, files[r.name].seq)
       /\ scheduled' = IF PrefetchTopupEnabled /\ Size(after) <= gp.knobs.low_water
                       THEN {TargetSizeWith(gp.knobs, Size(after))}
                       ELSE {}
       /\ last' = [op |-> "generate", hit |-> TRUE, sizeBefore |-> Size(files),
                   sizeAfter |-> Size(after)]
       /\ UNCHANGED <<clock, seen, nextSeq, backoff, gemini_review_backoff_until, gp>>
       /\ UNCHANGED <<concVars, rlVars, catVars>>

(* the background task runs after the response: _top_up_prefetch(brief,     *)
(* target) is called                                                        *)
RunScheduled ==
    /\ gp.pc = "idle"
    /\ \E min_fill \in scheduled :
          /\ gp' = [gp EXCEPT !.pc = "head", !.min_fill = min_fill]
          /\ scheduled' = scheduled \ {min_fill}
          /\ last' = [op |-> "topup_call", min_fill |-> min_fill, sizeBefore |-> Size(files)]
    /\ UNCHANGED <<clock, files, seen, nextSeq, deqLog, backoff, gemini_review_backoff_until>>
    /\ UNCHANGED <<concVars, rlVars, catVars>>

(* other producers stop once the hit is served *)
PrefillBeforeHit ==
    /\ deqLog = <<>>
    /\ Prefill

NextHitTopUp ==
    \/ Tick
    \/ PrefillBeforeHit
    \/ HitThenSchedule
    \/ RunScheduled
    \/ TopUpHead
    \/ \E result \in FreshSeqs : TopUpWait(result)
    \/ TopUpFlush

SpecHitTopUp ==
    /\ InitTopUp
    /\ [][NextHitTopUp]_vars
    /\ WF_vars(RunScheduled)
    /\ WF_vars(TopUpHead)
    /\ WF_vars(\E result \in FreshSeqs : TopUpWait(result))
    /\ WF_vars(TopUpFlush)

(* the hit left the queue at or below the low water mark *)
HitLeftLow ==
    /\ last.op = "generate"
    /\ last.hit
    /\ last.sizeAfter <= gp.knobs.low_water

(* C24: when a prefetch hit leaves the queue size at or below LOW_WATER a   *)
(* top-up is scheduled, and while bursts keep yielding new documents the    *)
(* queue size eventually reaches FILL_TO at least.                          *)
C24_HitTopsUpToFillTo ==
    /\ [](HitLeftLow => scheduled # {})
    /\ HitLeftLow ~> (Size(files) >= gp.knobs.fill_to)

(* what the code does: the job the hit schedules ends, and a job that ends  *)
(* leaves the queue at the size the hit asked for, which is below FILL_TO   *)
(* when the hit left fewer than FILL_TO - REVIEW_BATCH records.             *)
HitJobEndsAtItsTarget ==
    /\ HitLeftLow ~> (gp.pc = "done")
    /\ [](gp.pc = "done" => Size(files) >= gp.min_fill)

-----------------------------------------------------------------------------
(* llm_parsing._normalize_doc and _sanitize_doc_external_assets on          *)
(* documents as dicts.  A dict is a function from its keys; a text is a     *)
(* sequence of parts:                                                       *)
(*   " "       white space                                                  *)
(*   "p"       markup with no external address, such as <p>x</p>            *)
(*   "link"    <link href="//x.css">, an external stylesheet                *)
(*   "cdn"     <script src="https://cdn.tailwindcss.com"></script>          *)
(*   "vendor"  <script src="/static/vendor/tailwind-play.js"></script>      *)
(*   "bg"      the words "background:" at the head of a style               *)
(*   "val"     any other words of a style                                   *)

MaxHtml == 2        \* parts of one text of a document

HtmlParts == {" ", "p", "link", "cdn"}
HtmlTexts == UNION {[1..n -> HtmlParts] : n \in 0..MaxHtml}
StyleTexts == {<<"val">>, <<"bg">>, <<"bg", " ", "val">>, <<" ", "bg", "bg", "val">>}
DocKinds == {"ndw_snippet", "ndw_snippet_v1", "page_html", "full_page_html"}

(* line 161 *)
SnippetKinds == {"ndw_snippet", "snippet_v1", "ndw-canvas-snippet", "canvas_snippet",
                 "canvas-snippet"}
(* line 206 *)
FullPageKinds == {"full_page_html", "page_html", "html_page", "full_html"}

ValueError == [raised |-> "ValueError"]
NoKeys == [k \in {} |-> 0]

(* {key: value} when present, else {} *)
KeyIf(present, key, value) == IF present THEN key :> value ELSE NoKeys

(* "<" in v and ">" in v *)
HasTag(text) == \E i \in DOMAIN text : text[i] \in {"p", "link", "cdn", "vendor"}

(* isinstance(doc.get(key), str) and doc[key].strip() *)
NonBlank(doc, key) == key \in DOMAIN doc /\ Strip(doc[key]) # <<>>

(* _strip_external_assets(html), lines 293-352: the scripts are rewritten   *)
(* or removed first, then the stylesheet links are removed                  *)
StripExternalAssets(html) ==
    LET scripts == [i \in DOMAIN html |-> IF html[i] = "cdn" THEN "vendor" ELSE html[i]]
    IN SelectSeq(scripts, LAMBDA part : part # "link")

(* the issues of _strip_external_assets(html), in the order they are added *)
ExternalIssues(html, field) ==
    LET rewritten == SelectSeq(html, LAMBDA part : part = "cdn")
        removed == SelectSeq(html, LAMBDA part : part = "link")
    IN [i \in DOMAIN rewritten |->
            [severity |-> "info", field |-> field, message |-> "Rewrote external script"]]
       \o [i \in DOMAIN removed |->
            [severity |-> "warn", field |-> field, message |-> "Removed external stylesheet"]]

(* lines 372-393: one component of the list *)
SanitizeComponent(comp) ==
    IF "props" \in DOMAIN comp /\ "html" \in DOMAIN comp.props
    THEN [comp EXCEPT !.props = [@ EXCEPT !.html = StripExternalAssets(@)]]
    ELSE comp

ComponentIssues(comp) ==
    IF "props" \in DOMAIN comp /\ "html" \in DOMAIN comp.props
    THEN ExternalIssues(comp.props.html,
                        <<"components", IF "id" \in DOMAIN comp THEN comp.id ELSE "">>)
    ELSE <<>>

RECURSIVE AllComponentIssues(_)
AllComponentIssues(comps) ==
    IF comps = <<>> THEN <<>>
    ELSE ComponentIssues(Head(comps)) \o AllComponentIssues(Tail(comps))

(* _sanitize_doc_external_assets(doc), lines 358-403 *)
SanitizeDocExternalAssets(doc) ==
    LET full == "kind" \in DOMAIN doc /\ doc["kind"] = "full_page_html" /\ "html" \in DOMAIN doc
        page == IF full THEN [doc EXCEPT !["html"] = StripExternalAssets(@)] ELSE doc
        hasComps == "components" \in DOMAIN doc
        next == IF hasComps
                THEN [page EXCEPT !["components"] =
                         [i \in DOMAIN @ |-> SanitizeComponent(@[i])]]
                ELSE page
        issues == (IF full THEN ExternalIssues(doc["html"], "html") ELSE <<>>)
                  \o (IF hasComps THEN AllComponentIssues(doc["components"]) ELSE <<>>)
    IN IF issues = <<>> THEN next
       ELSE ("ndw_debug" :> [external_assets_removed |->
                 (IF "ndw_debug" \in DOMAIN doc THEN doc["ndw_debug"].external_assets_removed
                  ELSE <<>>) \o issues]) @@ next

(* lines 151-157: a payload with html and no kind or components is taken    *)
(* for a snippet; only title, background, css, html, js are kept            *)
CoerceSnippet(doc) ==
    IF /\ {"html", "css", "js"} \cap DOMAIN doc # {}
       /\ ~("components" \in DOMAIN doc /\ doc["components"] # <<>>)
       /\ ~("kind" \in DOMAIN doc /\ doc["kind"] # "")
    THEN ("kind" :> "ndw_snippet_v1")
         @@ [k \in (DOMAIN doc) \cap {"title", "background", "css", "html", "js"} |-> doc[k]]
    ELSE doc

(* line 159: str(doc.get("kind") or doc.get("type") or "").lower(), with the *)
(* synonyms of the snippet kind                                             *)
KindOf(doc) ==
    LET kind == IF "kind" \in DOMAIN doc THEN doc["kind"] ELSE ""
    IN IF kind \in SnippetKinds THEN "ndw_snippet_v1" ELSE kind

(* line 175: re.sub(r"^\s*background\s*:\s*", "", sty) *)
StyleSub(sty) ==
    IF LStrip(sty) # <<>> /\ Head(LStrip(sty)) = "bg" THEN LStrip(Tail(LStrip(sty))) ELSE sty

(* lines 168-183: the background of a snippet (no class in these documents) *)
BackgroundOut(doc) ==
    IF "background" \in DOMAIN doc /\ NonBlank(doc["background"], "style")
    THEN "background" :> [style |-> StyleSub(doc["background"].style)]
    ELSE NoKeys

(* lines 163-202: the snippet (no title, css or js in these documents) *)
NormalizeSnippet(doc) ==
    LET html == IF NonBlank(doc, "html") THEN "html" :> doc["html"]
                ELSE IF "content" \in DOMAIN doc /\ HasTag(doc["content"])
                     THEN "html" :> doc["content"]
                ELSE NoKeys
    IN IF html = NoKeys THEN ValueError
       ELSE SanitizeDocExternalAssets(("kind" :> "ndw_snippet_v1") @@ BackgroundOut(doc) @@ html)

FullPage(html) == SanitizeDocExternalAssets(("kind" :> "full_page_html") @@ ("html" :> html))

(* line 207: doc.get("html") or doc.get("content") or doc.get("body") *)
HtmlOrContent(doc) ==
    IF "html" \in DOMAIN doc /\ doc["html"] # <<>> THEN doc["html"]
    ELSE IF "content" \in DOMAIN doc THEN doc["content"]
    ELSE <<>>

(* lines 223-248: one component, or nothing when it has no html *)
CustomIds == <<"custom-1", "custom-2">>

NormalizeComponent(c, idx) ==
    LET props == IF "props" \in DOMAIN c THEN c.props ELSE NoKeys
        html == IF NonBlank(props, "html") THEN props.html
                ELSE IF "html" \in DOMAIN c THEN c.html
                ELSE <<>>
        height == IF "height" \in DOMAIN props THEN props.height ELSE 360
    IN IF Strip(html) = <<>> THEN <<>>
       ELSE << [id |-> IF "id" \in DOMAIN c /\ c.id # "" THEN c.id ELSE CustomIds[idx],
                type |-> "custom",
                props |-> ("html" :> Strip(html)) @@ ("height" :> height) @@ props] >>

RECURSIVE NormalizeComponents(_, _)
NormalizeComponents(comps, idx) ==
    IF idx > Len(comps) THEN <<>>
    ELSE NormalizeComponent(comps[idx], idx) \o NormalizeComponents(comps, idx + 1)

(* lines 252-267: _find_html(doc); of these documents only the texts under  *)
(* html and content are strings within depth 2                              *)
PartLen(part) == IF part = " " THEN 1 ELSE IF part = "p" THEN 8 ELSE 21

RECURSIVE TextLen(_)
TextLen(text) == IF text = <<>> THEN 0 ELSE PartLen(Head(text)) + TextLen(Tail(text))

FindHtml(doc) ==
    LET found(key) == key \in DOMAIN doc /\ HasTag(doc[key]) /\ TextLen(doc[key]) > 20
    IN IF found("html") THEN doc["html"]
       ELSE IF found("content") THEN doc["content"]
       ELSE <<>>

(* _normalize_doc(doc), lines 144-272 *)
NormalizeDoc(raw) ==
    IF "error" \in DOMAIN raw
    THEN SanitizeDocExternalAssets("error" :> raw["error"])
    ELSE LET doc == CoerceSnippet(raw)
             comps == IF "components" \in DOMAIN doc
                      THEN NormalizeComponents(doc["components"], 1) ELSE <<>>
         IN IF KindOf(doc) = "ndw_snippet_v1" THEN NormalizeSnippet(doc)
            ELSE IF "kind" \in DOMAIN doc /\ doc["kind"] \in FullPageKinds
                    /\ Strip(HtmlOrContent(doc)) # <<>>
                 THEN FullPage(HtmlOrContent(doc))
            ELSE IF NonBlank(doc, "html") THEN FullPage(doc["html"])
            ELSE IF "content" \in DOMAIN doc /\ HasTag(doc["content"])
                 THEN FullPage(doc["content"])
            ELSE IF comps # <<>>
                 THEN SanitizeDocExternalAssets("components" :> comps)
            ELSE IF FindHtml(doc) # <<>> THEN FullPage(FindHtml(doc))
            ELSE ValueError

(* the documents a model answers with *)
PageDocs ==
    {KeyIf(kind # "", "kind", kind) @@ KeyIf(html # <<"absent">>, "html", html)
        @@ KeyIf(content # <<>>, "content", content)
        @@ KeyIf(sty # <<>>, "background", [style |-> sty]) :
        kind \in DocKinds \cup {""}, html \in HtmlTexts \cup {<<"absent">>},
        content \in {<<>>, <<"p">>}, sty \in StyleTexts \cup {<<>>}}

InputComponents == {[props |-> [html |-> html]] : html \in HtmlTexts}

ComponentDocs ==
    {"components" :> comps :
        comps \in {<<c>> : c \in InputComponents}
                  \cup {<<c1, c2>> : c1 \in InputComponents, c2 \in InputComponents}}

ErrorDocs == {"error" :> <<"val">>, ("error" :> <<"val">>) @@ ("html" :> <<"p">>)}

InputDocs == PageDocs \cup ComponentDocs \cup ErrorDocs

InitNorm ==
    /\ InitQ
    /\ thr = [t \in Threads |-> IdleThread]
    /\ delivered = <<>>
    /\ backoff = [until |-> 0, delay |-> 0]
    /\ gemini_review_backoff_until = 0
    /\ store = [k \in ClientKeys |-> NoEntry]
    /\ rlAllowed = <<>>
    /\ catIdx = <<>>
    /\ catHist = [calls |-> 0, raw |-> [k \in UserKeys |-> 0],
                  cursor |-> [k \in NormalKeys |-> [idx |-> -1, discarded |-> FALSE]]]
    /\ \E doc \in InputDocs : gp = [pc |-> "raw", doc |-> doc]
    /\ last = [op |-> "init"]

NormFrame == UNCHANGED <<qVars, concVars, backoff, gemini_review_backoff_until, rlVars, catVars>>

(* normalize(doc) *)
NormalizeOnce ==
    /\ gp.pc = "raw"
    /\ \E once \in {NormalizeDoc(gp.doc)} :
          /\ gp' = [pc |-> "once", doc |-> gp.doc, once |-> once]
          /\ last' = [op |-> "normalize", raised |-> once = ValueError]
    /\ NormFrame

(* normalize(normalize(doc)), when normalize(doc) did not raise *)
NormalizeAgain ==
    /\ gp.pc = "once"
    /\ gp.once # ValueError
    /\ \E twice \in {NormalizeDoc(gp.once)} :
          /\ gp' = [gp EXCEPT !.pc = "twice"] @@ [twice |-> twice]
          /\ last' = [op |-> "normalize_again", raised |-> twice = ValueError]
    /\ NormFrame

NextNorm == NormalizeOnce \/ NormalizeAgain

SpecNorm == InitNorm /\ [][NextNorm]_vars

(* C25: normalization is idempotent: normalize(normalize(doc)) equals       *)
(* normalize(doc) for every document that normalizes, a document from which *)
(* external assets were stripped included.                                  *)
C25_NormalizeIdempotent == gp.pc = "twice" => gp.twice = gp.once

(* what does hold: a page or snippet with no external asset stripped and no *)
(* background is left as it is by a second normalization                    *)
PlainNormalizeIdempotent ==
    (gp.pc = "twice" /\ "ndw_debug" \notin DOMAIN gp.once
        /\ "background" \notin DOMAIN gp.once /\ "components" \notin DOMAIN gp.once)
        => gp.twice = gp.once

-----------------------------------------------------------------------------
(* The review worker, api/main.py lines 472-515.  gp.queue is               *)
(* _PREFETCH_REVIEW_QUEUE: entries [paths, attempt]; origin is a ghost, the *)
(* ordinal of the _schedule_prefetch_review call the entry descends from;   *)
(* gp.tries[origin] counts the attempts made on it and gp.abandoned holds   *)
(* the origins given up.  The caller passes Path objects.                   *)

REVIEW_MAX_ATTEMPTS == 3
MaxBatches == 2     \* calls of _schedule_prefetch_review in one behaviour

(* faulty variant: a batch is queued again while attempt < 3 *)
MayRetryOnceMore(attempt) == attempt < REVIEW_MAX_ATTEMPTS

(* line 486: attempt + 1 < _REVIEW_MAX_ATTEMPTS *)
MayRetry(attempt) == attempt + 1 < REVIEW_MAX_ATTEMPTS

InitRevQ ==
    /\ InitQ
    /\ thr = [t \in Threads |-> IdleThread]
    /\ delivered = <<>>
    /\ backoff = [until |-> 0, delay |-> 0]
    /\ gemini_review_backoff_until = 0
    /\ store = [k \in ClientKeys |-> NoEntry]
    /\ rlAllowed = <<>>
    /\ catIdx = <<>>
    /\ catHist = [calls |-> 0, raw |-> [k \in UserKeys |-> 0],
                  cursor |-> [k \in NormalKeys |-> [idx |-> -1, discarded |-> FALSE]]]
    /\ gp = [pc |-> "worker", queue |-> <<>>, tries |-> <<>>, abandoned |-> {}]
    /\ last = [op |-> "init"]

RevQFrame ==
    /\ UNCHANGED <<clock, nextSeq, deqLog, scheduled, backoff, gemini_review_backoff_until>>
    /\ UNCHANGED <<concVars, rlVars, catVars>>

(* _schedule_prefetch_review(paths), lines 501-515: the paths that exist    *)
(* are queued with attempt 0                                                *)
ScheduleReviewBatch ==
    /\ Len(gp.tries) < MaxBatches
    /\ \E paths \in SUBSET (DOMAIN files) :
          /\ paths # {}
          /\ Cardinality(paths) <= PREFETCH_REVIEW_BATCH
          /\ SchedulePrefetchReviewOutcome(paths, TRUE, files) = "queued"
          /\ gp' = [gp EXCEPT !.queue = Append(@, [paths |-> SortNames(paths), attempt |-> 0,
                                                   origin |-> Len(gp.tries) + 1]),
                              !.tries = Append(@, 0)]
          /\ last' = [op |-> "schedule_review", paths |-> paths, outcome |-> "queued"]
    /\ UNCHANGED <<files, seen>>
    /\ RevQFrame

(* one turn of _process_prefetch_review_queue, lines 475-498: the head      *)
(* entry is popped and reviewed; the paths left without a review are queued *)
(* again with attempt + 1, or given up.  crashed: run_compliance_batch      *)
(* raises and every existing path is to be retried.  (The worker sleeps 5   *)
(* seconds before it queues the entry again.)                               *)
ProcessReviewEntry ==
    /\ gp.queue # <<>>
    /\ LET entry == Head(gp.queue)
           existing == SelectSeq(entry.paths, LAMBDA name : name \in DOMAIN files)
           names == {existing[i] : i \in DOMAIN existing}
       IN \E verdicts \in [names -> BatchVerdicts], crashed \in BOOLEAN :
            \E st \in {IF crashed THEN [fs |-> files, data |-> seen]
                       ELSE ReviewPaths([fs |-> files, data |-> seen], existing, verdicts,
                                        clock)} :
              LET retry_paths == IF crashed THEN existing
                                 ELSE SelectSeq(existing, LAMBDA name : verdicts[name] = "none")
                  again == retry_paths # <<>> /\ MayRetry(entry.attempt)
              IN /\ files' = st.fs
                 /\ seen' = st.data
                 /\ gp' = [gp EXCEPT
                             !.queue = IF again
                                       THEN Append(Tail(@), [paths |-> retry_paths,
                                                             attempt |-> entry.attempt + 1,
                                                             origin |-> entry.origin])
                                       ELSE Tail(@),
                             !.tries[entry.origin] = @ + 1,
                             !.abandoned = IF retry_paths # <<>> /\ ~again
                                           THEN @ \cup {entry.origin} ELSE @]
                 /\ last' = [op |-> "review_entry", entry |-> entry, retry_paths |-> retry_paths,
                             again |-> again, queueBefore |-> gp.queue]
    /\ RevQFrame

NextRevQ ==
    \/ \E d \in Docs : Enqueue(d)
    \/ ScheduleReviewBatch
    \/ ProcessReviewEntry
    \/ Dequeue

SpecRevQ == InitRevQ /\ [][NextRevQ]_vars

QueuedOrigins == {gp.queue[i].origin : i \in DOMAIN gp.queue}

(* C30: each review batch is attempted at most 3 times in all: after an     *)
(* attempt that leaves records unreviewed the remaining records are queued  *)
(* again with the attempt count increased, and after the third such attempt *)
(* the batch is abandoned and never queued again.                           *)
C30_AtMostThreeAttempts ==
    /\ [](/\ \A o \in DOMAIN gp.tries : gp.tries[o] <= 3
          /\ \A i \in DOMAIN gp.queue :
                /\ gp.queue[i].attempt = gp.tries[gp.queue[i].origin]
                /\ gp.queue[i].attempt < 3
          /\ \A o \in gp.abandoned : gp.tries[o] = 3 /\ o \notin QueuedOrigins)
    /\ [][(last'.op = "review_entry" /\ last'.retry_paths # <<>>) =>
            IF last'.entry.attempt + 1 < 3
            THEN /\ gp'.queue = Append(Tail(gp.queue),
                                       [paths |-> last'.retry_paths,
                                        attempt |-> last'.entry.attempt + 1,
                                        origin |-> last'.entry.origin])
                 /\ gp'.abandoned = gp.abandoned
            ELSE /\ gp'.queue = Tail(gp.queue)
                 /\ gp'.abandoned = gp.abandoned \cup {last'.entry.origin}]_vars

(* a batch was given up at its third attempt, after two retries, while      *)
(* another batch is still queued                                            *)
C30_Witness ==
    /\ last.op = "review_entry"
    /\ last.entry.attempt = 2
    /\ last.retry_paths # <<>>
    /\ last.entry.origin \in gp.abandoned
    /\ gp.tries[last.entry.origin] = 3
    /\ gp.queue # <<>>

-----------------------------------------------------------------------------
(* The review worker thread and its schedulers, api/main.py lines 472-516,  *)
(* one critical section of _REVIEW_QUEUE_LOCK per step.  In gp:             *)
(*   queue    _PREFETCH_REVIEW_QUEUE, entries [origin, attempt]             *)
(*   ref      _REVIEW_WORKER: a worker's number, or 0 for None              *)
(*   workers  the Thread objects made so far: st is "new" (made, not        *)
(*            started), "run" (at the head of its loop), "busy" (holds the  *)
(*            entry it popped), "exiting" (returned from the function, the  *)
(*            thread still alive) or "dead"                                 *)
(*   made     calls of _schedule_prefetch_review so far, a ghost            *)
(*   taken    ghost: <<worker, origin, attempt>> of every pop, in order     *)
(* thr[t] is a caller of _schedule_prefetch_review: "idle", or "start" with *)
(* the worker it is about to start.                                         *)

NoWorker == 0

(* faulty variant: the worker leaves without clearing _REVIEW_WORKER *)
RefAfterExitKept(ref) == ref

(* line 478: _REVIEW_WORKER = None *)
RefAfterExit(ref) == NoWorker

(* worker.is_alive() *)
IsAlive(workers, w) == workers[w].st \in {"run", "busy", "exiting"}

InitPool ==
    /\ InitQ
    /\ thr = [t \in Threads |-> IdleThread]
    /\ delivered = <<>>
    /\ backoff = [until |-> 0, delay |-> 0]
    /\ gemini_review_backoff_until = 0
    /\ store = [k \in ClientKeys |-> NoEntry]
    /\ rlAllowed = <<>>
    /\ catIdx = <<>>
    /\ catHist = [calls |-> 0, raw |-> [k \in UserKeys |-> 0],
                  cursor |-> [k \in NormalKeys |-> [idx |-> -1, discarded |-> FALSE]]]
    /\ gp = [pc |-> "pool", queue |-> <<>>, ref |-> NoWorker, workers |-> <<>>, made |-> 0,
             taken |-> <<>>]
    /\ last = [op |-> "init"]

PoolFrame ==
    UNCHANGED <<qVars, delivered, backoff, gemini_review_backoff_until, rlVars, catVars>>

(* lines 508-514, under the lock: the batch is appended, and a new Thread   *)
(* is made unless _REVIEW_WORKER is a thread that is alive                  *)
ScheduleLocked(t) ==
    /\ thr[t].pc = "idle"
    /\ gp.made < MaxBatches
    /\ LET queue == Append(gp.queue, [origin |-> gp.made + 1, attempt |-> 0])
           start_worker == ~(gp.ref # NoWorker /\ IsAlive(gp.workers, gp.ref))
           w == Len(gp.workers) + 1
       IN /\ gp' = IF start_worker
                   THEN [gp EXCEPT !.queue = queue, !.made = @ + 1, !.ref = w,
                                   !.workers = Append(@, [st |-> "new", entry |-> <<>>])]
                   ELSE [gp EXCEPT !.queue = queue, !.made = @ + 1]
          /\ thr' = [thr EXCEPT ![t] = IF start_worker THEN [pc |-> "start", worker |-> w]
                                       ELSE IdleThread]
          /\ last' = [op |-> "schedule", thread |-> t, start_worker |-> start_worker]
    /\ PoolFrame

(* lines 515-516, outside the lock: worker.start() *)
ScheduleStart(t) ==
    /\ thr[t].pc = "start"
    /\ gp' = [gp EXCEPT !.workers[thr[t].worker].st = "run"]
    /\ thr' = [thr EXCEPT ![t] = IdleThread]
    /\ last' = [op |-> "start", thread |-> t, worker |-> thr[t].worker]
    /\ PoolFrame

(* lines 475-480, under the lock: leave on an empty queue, else popleft *)
WorkerTake(w) ==
    /\ w \in DOMAIN gp.workers
    /\ gp.workers[w].st = "run"
    /\ gp' = IF gp.queue = <<>>
             THEN [gp EXCEPT !.ref = RefAfterExit(@), !.workers[w].st = "exiting"]
             ELSE [gp EXCEPT !.queue = Tail(@),
                             !.workers[w] = [st |-> "busy", entry |-> Head(gp.queue)],
                             !.taken = Append(@, <<w, Head(gp.queue).origin,
                                                    Head(gp.queue).attempt>>)]
    /\ last' = [op |-> "worker_take", worker |-> w, empty |-> gp.queue = <<>>,
                queueBefore |-> gp.queue]
    /\ UNCHANGED thr
    /\ PoolFrame

(* lines 481-498: the batch is reviewed; retry: some paths are left without *)
(* a review, and the entry is appended again while attempts remain          *)
WorkerReviewed(w, retry) ==
    /\ w \in DOMAIN gp.workers
    /\ gp.workers[w].st = "busy"
    /\ LET entry == gp.workers[w].entry
       IN gp' = [gp EXCEPT !.workers[w] = [st |-> "run", entry |-> <<>>],
                           !.queue = IF retry /\ MayRetry(entry.attempt)
                                     THEN Append(@, [entry EXCEPT !.attempt = @ + 1])
                                     ELSE @]
    /\ last' = [op |-> "worker_reviewed", worker |-> w, retry |-> retry]
    /\ UNCHANGED thr
    /\ PoolFrame

(* the thread of a worker that returned ends *)
WorkerEnds(w) ==
    /\ w \in DOMAIN gp.workers
    /\ gp.workers[w].st = "exiting"
    /\ gp' = [gp EXCEPT !.workers[w].st = "dead"]
    /\ last' = [op |-> "worker_ends", worker |-> w]
    /\ UNCHANGED thr
    /\ PoolFrame

WorkerIds == 1..MaxBatches

NextPool ==
    \/ \E t \in Threads : ScheduleLocked(t) \/ ScheduleStart(t)
    \/ \E w \in WorkerIds : WorkerTake(w) \/ WorkerEnds(w)
    \/ \E w \in WorkerIds, retry \in BOOLEAN : WorkerReviewed(w, retry)

(* fair thread scheduling: a thread that can take its next step takes it *)
SpecPool ==
    /\ InitPool
    /\ [][NextPool]_vars
    /\ \A t \in Threads : WF_vars(ScheduleStart(t))
    /\ \A w \in WorkerIds : WF_vars(WorkerTake(w))
    /\ \A w \in WorkerIds : WF_vars(\E retry \in BOOLEAN : WorkerReviewed(w, retry))

Consuming == {w \in DOMAIN gp.workers : gp.workers[w].st \in {"run", "busy"}}

QueuedOriginsOf(queue) == {queue[i].origin : i \in DOMAIN queue}
TakenOrigins == {gp.taken[i][2] : i \in DOMAIN gp.taken}

(* C37: no review batch is stranded: every batch appended by                *)
(* _schedule_prefetch_review is taken by a review worker in the end,        *)
(* whatever the interleaving of the scheduler with a worker that finds the  *)
(* queue empty and leaves (and so is every entry queued again: the queue is *)
(* empty in the end).                                                       *)
C37_NoBatchStranded ==
    \A o \in 1..MaxBatches :
        (o \in QueuedOriginsOf(gp.queue)) ~> (o \in TakenOrigins /\ gp.queue = <<>>)

(* a batch appended while the worker made before had found the queue empty  *)
(* and was leaving has been taken by a second worker                        *)
C37_Witness ==
    /\ Len(gp.workers) = 2
    /\ gp.workers[1].st \in {"exiting", "dead"}
    /\ gp.taken # <<>>
    /\ gp.taken[Len(gp.taken)] = <<2, 2, 0>>
    /\ \E i \in DOMAIN gp.taken : gp.taken[i] = <<1, 1, 0>>

-----------------------------------------------------------------------------
(* The OpenRouter backoff on its own: rate-limit registrations and resets   *)
(* in any order.  The limits of gp.knobs are in units in which every delay  *)
(* below the maximum is even where it is multiplied, so that the factor 1.5 *)
(* is exact: 16 and 60 stand for the defaults 3.0 s and 45.0 s closely      *)
(* (16, 24, 36, 54, then the maximum).                                      *)

FineBackoff == [initial |-> 16, max |-> 60]
BackoffLimits == {ScaledBackoff, FineBackoff}

(* Retry-After headers: none, below the initial delay, between the limits,  *)
(* above the maximum                                                        *)
RetryAftersFor(k) == {0, k.initial - 1, k.initial + 4, k.max + 5}

InitBk ==
    /\ InitQ
    /\ thr = [t \in Threads |-> IdleThread]
    /\ delivered = <<>>
    /\ backoff = [until |-> 0, delay |-> 0]
    /\ gemini_review_backoff_until = 0
    /\ store = [k \in ClientKeys |-> NoEntry]
    /\ rlAllowed = <<>>
    /\ catIdx = <<>>
    /\ catHist = [calls |-> 0, raw |-> [k \in UserKeys |-> 0],
                  cursor |-> [k \in NormalKeys |-> [idx |-> -1, discarded |-> FALSE]]]
    /\ \E k \in BackoffLimits : gp = [pc |-> "backoff", knobs |-> k]
    /\ last = [op |-> "init"]

BkFrame ==
    UNCHANGED <<qVars, concVars, gp, gemini_review_backoff_until, rlVars, catVars>>

(* a 429 of OpenRouter, line 1285 *)
RateLimited(retry_after) ==
    /\ backoff' = RegisterRateLimitWith(gp.knobs, backoff, retry_after, clock)
    /\ last' = [op |-> "rate_limit", retry_after |-> retry_after, before |-> backoff]
    /\ BkFrame

(* a 200 of OpenRouter, line 1287: _openrouter_reset_backoff() *)
ResetBackoff ==
    /\ backoff' = [until |-> 0, delay |-> 0]
    /\ last' = [op |-> "reset", before |-> backoff]
    /\ BkFrame

NextBk ==
    \/ Tick
    \/ \E retry_after \in RetryAftersFor(gp.knobs) : RateLimited(retry_after)
    \/ ResetBackoff

SpecBk == InitBk /\ [][NextBk]_vars

(* C35: after any sequence of rate-limit registrations and successful       *)
(* responses the backoff delay is 0 (after a reset) or within               *)
(* [initial, max]; a rate limit without Retry-After that follows another    *)
(* one multiplies the delay by 1.5, capped at max.                          *)
C35_DelayWithinLimits ==
    /\ [](backoff.delay = 0
          \/ (gp.knobs.initial <= backoff.delay /\ backoff.delay <= gp.knobs.max))
    /\ [][(last'.op = "reset") => backoff'.delay = 0]_vars
    /\ [][(last'.op = "rate_limit" /\ last'.retry_after = 0 /\ backoff.delay # 0) =>
            2 * backoff'.delay = Min2(3 * backoff.delay, 2 * gp.knobs.max)]_vars

(* the fourth rate limit in a row takes the delay from 54 to the maximum *)
C35_Witness ==
    /\ last.op = "rate_limit"
    /\ last.retry_after = 0
    /\ last.before.delay = 54
    /\ backoff.delay = 60

-----------------------------------------------------------------------------
(* _review_prefetched_docs on the response of run_compliance_batch, api/    *)
(* main.py lines 401-469.  A response is a list of items or no list; an     *)
(* item is a dict with "index" (an int, or -1 for none), "ok" and "doc" (a  *)
(* corrected document or none), an empty dict, or no dict.  Positions are   *)
(* counted from 0 as in the code.                                           *)

NoIndex == -1
ReviewItems ==
    [kind : {"dict"}, index : {NoIndex, 0, 1}, ok : {"true", "false"}, fixes : BOOLEAN]
    \cup {[kind |-> "empty", index |-> NoIndex, ok |-> "true", fixes |-> FALSE],
          [kind |-> "not_a_dict", index |-> NoIndex, ok |-> "true", fixes |-> FALSE]}
ItemLists == UNION {[1..n -> ReviewItems] : n \in 0..PREFETCH_REVIEW_BATCH}
BatchResponses == {[is_list |-> TRUE, items |-> items] : items \in ItemLists}
                  \cup {[is_list |-> FALSE, items |-> <<>>]}

(* faulty variant: the items are taken by their place in the list *)
ReviewKeyByPlace(items, pos) == pos

(* lines 430-438: the key of the item at list position pos *)
ReviewKey(items, pos) == IF items[pos + 1].index # NoIndex THEN items[pos + 1].index ELSE pos

(* review_map.get(idx): the last dict of the list with the key idx *)
ReviewMapGet(items, idx) ==
    LET at == {pos \in 0..(Len(items) - 1) :
                  items[pos + 1].kind # "not_a_dict" /\ ReviewKey(items, pos) = idx}
    IN IF at = {} THEN [kind |-> "missing"]
       ELSE items[(CHOOSE pos \in at : \A other \in at : other <= pos) + 1]

(* lines 439-455: what is done with the record at position idx *)
VerdictAt(resp, idx) ==
    LET review == ReviewMapGet(resp.items, idx)
    IN IF ~resp.is_list \/ review.kind \in {"missing", "empty"} THEN "none"
       ELSE IF review.ok = "false" THEN "reject"
       ELSE IF review.fixes THEN "fix"
       ELSE "approve"

(* _review_prefetched_docs(paths) with the response resp, one chunk; one    *)
(* call is followed in a behaviour                                          *)
ReviewBatch(batch, resp) ==
    /\ gp.pc = "idle"
    /\ batch # {}
    /\ Cardinality(batch) <= PREFETCH_REVIEW_BATCH
    /\ LET existing == SortNames(batch \cap DOMAIN files)
           valid_paths == SelectSeq(existing, LAMBDA name : files[name].parseable)
           damaged == {name \in batch \cap DOMAIN files : ~files[name].parseable}
           verdicts == [name \in {valid_paths[i] : i \in DOMAIN valid_paths} |->
                          VerdictAt(resp, (CHOOSE i \in DOMAIN valid_paths :
                                              valid_paths[i] = name) - 1)]
       IN \E st \in {ReviewPaths([fs |-> RemoveFiles(files, damaged), data |-> seen],
                                 valid_paths, verdicts, clock)} :
            /\ files' = st.fs
            /\ seen' = st.data
            /\ last' = [op |-> "review_batch", valid_paths |-> valid_paths, resp |-> resp,
                        retry |-> SelectSeq(valid_paths, LAMBDA name : verdicts[name] = "none"),
                        filesBefore |-> files, seenBefore |-> seen]
    /\ gp' = [pc |-> "reviewed"]
    /\ UNCHANGED <<clock, nextSeq, deqLog, scheduled, backoff, gemini_review_backoff_until>>
    /\ UNCHANGED <<concVars, rlVars, catVars>>

(* the records a batch is made of: those enqueued and not reviewed yet *)
Unreviewed == {name \in DOMAIN files : files[name].review = None}

NextRevBatch ==
    \/ \E d \in Docs : Enqueue(d)
    \/ \E name \in DOMAIN files : RecordDamaged(name)
    \/ \E batch \in SUBSET Unreviewed, resp \in BatchResponses : ReviewBatch(batch, resp)

SpecRevBatch == Init /\ [][NextRevBatch]_vars

InRetry(name) == \E i \in DOMAIN last.retry : last.retry[i] = name

(* the record was deleted / left as it was / overwritten by document d with *)
(* the review attached and d's signature in the dedupe store                *)
RecordDeleted(name) == name \notin DOMAIN files /\ ~InRetry(name)
RecordUntouched(name) == name \in DOMAIN files /\ files[name] = last.filesBefore[name]
RecordWritten(name, d) ==
    /\ name \in DOMAIN files
    /\ files[name] = [last.filesBefore[name] EXCEPT !.doc = d, !.review = "ok"]
    /\ Has(seen, SignatureForDoc(d))
    /\ ~InRetry(name)

IsReviewOf(items, pos, idx) ==
    /\ items[pos + 1].kind # "not_a_dict"
    /\ idx = (IF items[pos + 1].index # NoIndex THEN items[pos + 1].index ELSE pos)
    /\ \A later \in (pos + 1)..(Len(items) - 1) :
          items[later + 1].kind = "not_a_dict"
          \/ idx # (IF items[later + 1].index # NoIndex THEN items[later + 1].index ELSE later)

-----------------------------------------------------------------------------
(* One review record read by both paths: _maybe_run_compliance_review (the  *)
(* single review of generate_page) and the loop of _review_prefetched_docs  *)
(* (the review of queued documents).                                        *)

(* main.py lines 441-450: the queued document is deleted when the review is *)
(* a non-empty dict whose "ok" is False                                     *)
BatchDrops(raw) == raw.is_dict /\ raw.ok = "False"

ReviewBothPaths(raw) ==
    /\ last' = [op |-> "review_both", raw |-> raw,
                single |-> MaybeRunComplianceReview(ReviewOf(raw)),
                batch_drops |-> BatchDrops(raw)]
    /\ UNCHANGED qVars
    /\ UNCHANGED <<concVars, genVars, rlVars, catVars>>

NextBoth == \E raw \in RawReviews : ReviewBothPaths(raw)

SpecBoth == Init /\ [][NextBoth]_vars

(* C33: for every review record the review of queued documents drops the    *)
(* document exactly when the single review reports overall_ok = false, that *)
(* is on ok = false or on a block-severity issue without a corrected doc.   *)
C33_BatchDropsAsSingle ==
    last.op = "review_both" => (last.batch_drops <=> ~last.single.review_ok)

(* what holds: the queued document is dropped exactly on ok = false, and    *)
(* whenever it is dropped the single review rejects too                     *)
BatchDropsOnNotOkOnly ==
    last.op = "review_both" =>
        /\ last.batch_drops <=> last.raw.ok = "False"
        /\ last.batch_drops => ~last.single.review_ok

-----------------------------------------------------------------------------
(* Concurrent producers: enqueue(doc) step by step, api/prefetch.py lines   *)
(* 290-329, and peek(limit), lines 195-241.  thr[t] is a caller of          *)
(* enqueue: "idle", "add" (the duplicate check passed), or "write" (the     *)
(* signature is added and created_at is read).  peers is a ghost field: the *)
(* enqueues of other threads that were accepted while this one was running. *)

TOKEN_TTL == 2      \* max(60, TOKEN_TTL_SECONDS), scaled
MaxPeek == 3        \* largest limit passed to peek

ProducerFrame ==
    UNCHANGED <<deqLog, scheduled, delivered, genVars, rlVars, catVars>>

(* lines 294-304: sig, size(), dedupe.has(sig) *)
EnqueueCheck(t, d) ==
    /\ thr[t].pc = "idle"
    /\ nextSeq + Cardinality({u \in Threads : thr[u].pc # "idle"}) <= MaxEnqueued
    /\ LET refused == EnqueueRefused(files, seen, d)
       IN /\ thr' = [thr EXCEPT ![t] = IF refused THEN IdleThread
                                       ELSE [pc |-> "add", doc |-> d,
                                             sizeAtCheck |-> Size(files),
                                             peers |-> {}]]
          /\ last' = [op |-> "enqueue_check", thread |-> t, doc |-> d, refused |-> refused]
    /\ UNCHANGED <<clock, files, seen, nextSeq>>
    /\ ProducerFrame

(* lines 306-309: dedupe.add(sig); created_at = time.time() *)
EnqueueAdd(t) ==
    /\ thr[t].pc = "add"
    /\ seen' = Add(seen, SignatureForDoc(thr[t].doc), clock)
    /\ thr' = [thr EXCEPT ![t] = [pc |-> "write", doc |-> thr[t].doc,
                                  sizeAtCheck |-> thr[t].sizeAtCheck,
                                  peers |-> thr[t].peers, created_at |-> clock]]
    /\ last' = [op |-> "enqueue_add", thread |-> t]
    /\ UNCHANGED <<clock, files, nextSeq>>
    /\ ProducerFrame

(* lines 322-329: the file "<time_ns>-<uuid8>.json" is written and renamed  *)
(* into place                                                               *)
EnqueueWrite(t) ==
    /\ thr[t].pc = "write"
    /\ \E u \in Uids :
          LET name == <<clock, u>>
          IN /\ name \notin DOMAIN files
             /\ files' = [n \in (DOMAIN files) \cup {name} |->
                            IF n = name THEN NewRecord(thr[t].doc, thr[t].created_at, nextSeq)
                            ELSE files[n]]
             /\ last' = [op |-> "enqueue_write", thread |-> t, ret |-> name,
                         doc |-> thr[t].doc, sizeAtCheck |-> thr[t].sizeAtCheck,
                         peers |-> thr[t].peers]
    /\ nextSeq' = nextSeq + 1
    /\ thr' = [u \in Threads |->
                 IF u = t THEN IdleThread
                 ELSE IF thr[u].pc = "idle" THEN thr[u]
                 ELSE [thr[u] EXCEPT !.peers = @ \cup {[doc |-> thr[t].doc,
                                                        sizeAtCheck |-> thr[t].sizeAtCheck]}]]
    /\ UNCHANGED <<clock, seen>>
    /\ ProducerFrame

(* records.sort(key=created_at), a stable sort of the readable files *)
RECURSIVE InsertByCreated(_, _, _)
InsertByCreated(fs, sorted, name) ==
    IF sorted = <<>> THEN <<name>>
    ELSE IF fs[name].created_at < fs[Head(sorted)].created_at THEN <<name>> \o sorted
    ELSE <<Head(sorted)>> \o InsertByCreated(fs, Tail(sorted), name)

RECURSIVE SortByCreated(_, _)
SortByCreated(fs, names) ==
    IF names = <<>> THEN <<>>
    ELSE InsertByCreated(fs, SortByCreated(fs, SubSeq(names, 1, Len(names) - 1)),
                         names[Len(names)])

(* lines 226-237: the readable records in the order of created_at *)
PeekOrder(fs) == SortByCreated(fs, SelectSeq(ListFiles(fs), LAMBDA name : fs[name].parseable))

(* peek(limit) at time now: the previews, each with its token *)
PeekResult(fs, limit, now) ==
    LET exp == ((now \div TOKEN_TTL) + 1) * TOKEN_TTL
        records == PeekOrder(fs)
    IN [i \in 1..Min2(limit, Len(records)) |->
          [id |-> MakeToken("file", [prefix |-> "", name |-> records[i]], exp),
           name |-> records[i], doc |-> fs[records[i]].doc,
           created_at |-> fs[records[i]].created_at]]

Peek(limit) ==
    /\ last' = [op |-> "peek", limit |-> limit, previews |-> PeekResult(files, limit, clock)]
    /\ UNCHANGED <<clock, files, seen, nextSeq, thr>>
    /\ ProducerFrame

(* the order in which dequeue() would return the records of fs *)
RECURSIVE DequeueOrder(_)
DequeueOrder(fs) ==
    IF ~DequeueResult(fs).hit THEN <<>>
    ELSE <<DequeueResult(fs).name>> \o DequeueOrder(FilesAfterDequeue(fs))

TickProducers ==
    /\ clock < MaxClock
    /\ clock' = clock + 1
    /\ last' = [op |-> "tick"]
    /\ UNCHANGED <<files, seen, nextSeq, thr>>
    /\ ProducerFrame

NextProducers ==
    \/ TickProducers
    \/ \E t \in Threads, d \in Docs : EnqueueCheck(t, d)
    \/ \E t \in Threads : EnqueueAdd(t) \/ EnqueueWrite(t)
    \/ \E limit \in 0..MaxPeek : Peek(limit)

SpecProducers == Init /\ [][NextProducers]_vars

(* C40: peek(n) leaves the queue unchanged and returns previews of the      *)
(* first min(n, size) records in the order in which dequeue would return    *)
(* them.                                                                    *)
C40_PeekInDequeueOrder ==
    /\ [][(last'.op = "peek") => files' = files]_vars
    /\ [](last.op = "peek" =>
            /\ Len(last.previews) = Min2(last.limit, Size(files))
            /\ \A i \in DOMAIN last.previews :
                  last.previews[i].name = DequeueOrder(files)[i])

(* what holds: peek leaves the queue unchanged and previews min(n, size)    *)
(* records, each once, in the order of created_at                           *)
PeekInCreatedOrder ==
    /\ [][(last'.op = "peek") => files' = files]_vars
    /\ [](last.op = "peek" =>
            /\ Len(last.previews) = Min2(last.limit, Size(files))
            /\ \A i, j \in DOMAIN last.previews :
                  /\ last.previews[i].name \in DOMAIN files
                  /\ i < j => /\ last.previews[i].name # last.previews[j].name
                              /\ last.previews[i].created_at <= last.previews[j].created_at)

(* C38: when two threads run prefetch.enqueue at the same time with         *)
(* documents of the same signature and the queue is not empty, at most one  *)
(* of the two documents is accepted.                                        *)
C38_OneOfTwoAccepted ==
    (last.op = "enqueue_write" /\ last.sizeAtCheck > 0) =>
        \A p \in last.peers :
            p.sizeAtCheck > 0 => SignatureForDoc(p.doc) # SignatureForDoc(last.doc)

(* what holds: a caller that starts after an enqueue of the signature has   *)
(* returned, with the signature still in the store and a non-empty queue,   *)
(* is refused                                                               *)
KnownSignatureRefused ==
    [][\A t \in Threads, d \in Docs :
         (EnqueueCheck(t, d) /\ Has(seen, SignatureForDoc(d)) /\ Size(files) > 0)
            => thr'[t].pc = "idle"]_vars
-----------------------------------------------------------------------------
(* Concurrent request handlers in the in-process rate limiter.  The         *)
(* handlers of api/main.py are plain functions, which the server runs on a  *)
(* pool of threads; api/ratelimit.py takes no lock.  thr[t] is a handler    *)
(* inside allow_request: "test" (it holds the entry _ensure_entry returned) *)
(* or "incr" (line 31 found the count under the limit).  The entry a        *)
(* handler holds is a dict object; when another handler replaces            *)
(* _store[k], old is the object the handler still holds.                    *)

RlConcFrame ==
    UNCHANGED <<files, seen, nextSeq, deqLog, scheduled, delivered, genVars, catVars>>

HoldsEntry(t, k, entry) ==
    /\ thr[t].pc # "idle"
    /\ thr[t].key = k
    /\ thr[t].old = NoEntry
    /\ thr[t].reset_ts = entry.reset_ts

(* the entry object handler t holds *)
EntryHeld(t) ==
    IF thr[t].old = NoEntry THEN store[thr[t].key] ELSE thr[t].old

(* line 30: entry = _ensure_entry(bucket, key) *)
AllowEnsure(t, k) ==
    /\ thr[t].pc = "idle"
    /\ LET e == EnsureEntry(store[k], clock)
           replaced == store[k].present /\ e # store[k]
       IN /\ store' = [store EXCEPT ![k] = e]
          /\ thr' = [u \in Threads |->
                       IF u = t THEN [pc |-> "test", key |-> k, reset_ts |-> e.reset_ts,
                                      old |-> NoEntry]
                       ELSE IF replaced /\ HoldsEntry(u, k, store[k])
                            THEN [thr[u] EXCEPT !.old = store[k]]
                       ELSE thr[u]]
    /\ last' = [op |-> "allow_ensure", thread |-> t, key |-> k]
    /\ UNCHANGED <<clock, rlAllowed>>
    /\ RlConcFrame

(* line 31: if entry["count"] < MAX_REQUESTS; lines 35-37 when it is not *)
AllowTest(t) ==
    /\ thr[t].pc = "test"
    /\ IF UnderLimit(EntryHeld(t))
       THEN /\ thr' = [thr EXCEPT ![t].pc = "incr"]
            /\ last' = [op |-> "allow_test", thread |-> t, key |-> thr[t].key]
       ELSE /\ thr' = [thr EXCEPT ![t] = IdleThread]
            /\ last' = [op |-> "allow_request", thread |-> t, key |-> thr[t].key,
                        allowed |-> FALSE, remaining |-> 0,
                        reset_ts |-> EntryHeld(t).reset_ts]
    /\ UNCHANGED <<clock, store, rlAllowed>>
    /\ RlConcFrame

(* lines 32-34: entry["count"] += 1; return True, remaining, reset_ts *)
AllowIncrement(t) ==
    /\ thr[t].pc = "incr"
    /\ LET e == EntryHeld(t)
           k == thr[t].key
           bumped == [e EXCEPT !.count = e.count + 1]
       IN /\ store' = IF thr[t].old = NoEntry THEN [store EXCEPT ![k] = bumped] ELSE store
          /\ thr' = [u \in Threads |->
                       IF u = t THEN IdleThread
                       ELSE IF thr[u].pc # "idle" /\ thr[u].key = k /\ thr[u].old = e
                            THEN [thr[u] EXCEPT !.old = bumped]
                       ELSE thr[u]]
          /\ rlAllowed' = Append(rlAllowed, <<k, e.reset_ts>>)
          /\ last' = [op |-> "allow_request", thread |-> t, key |-> k, allowed |-> TRUE,
                      remaining |-> Max2(0, MAX_REQUESTS - bumped.count),
                      reset_ts |-> e.reset_ts]
    /\ UNCHANGED clock
    /\ RlConcFrame

TickRlConc ==
    /\ clock < MaxClock
    /\ clock' = clock + 1
    /\ last' = [op |-> "tick"]
    /\ UNCHANGED <<thr, store, rlAllowed>>
    /\ RlConcFrame

NextRlConc ==
    \/ TickRlConc
    \/ \E t \in Threads, k \in ClientKeys : AllowEnsure(t, k)
    \/ \E t \in Threads : AllowTest(t) \/ AllowIncrement(t)

SpecRlConc == Init /\ [][NextRlConc]_vars

(* C39: for every interleaving of concurrent allow_request calls for one    *)
(* (bucket, key) within one window, the number of allowed calls never       *)
(* exceeds MAX_REQUESTS.                                                    *)
C39_BoundUnderConcurrency ==
    \A i \in DOMAIN rlAllowed :
        AllowedInWindow(rlAllowed[i][1], rlAllowed[i][2]) <= MAX_REQUESTS

(* what holds: each handler past the test adds at most one, so a window     *)
(* allows at most MAX_REQUESTS + NumThreads - 1 calls                       *)
BoundPlusHandlers ==
    \A i \in DOMAIN rlAllowed :
        AllowedInWindow(rlAllowed[i][1], rlAllowed[i][2]) <= MAX_REQUESTS + NumThreads - 1
-----------------------------------------------------------------------------
(* The review of one queued record next to the readers of the queue,        *)
(* _review_prefetched_docs in api/main.py lines 401-469, one path at a      *)
(* time.  gp is the reviewer: "idle", "loaded" (line 414 read the record,   *)
(* the batch is with the reviewer), or "open" (path.write_text at line 458  *)
(* has opened the file for writing, which creates or truncates it, and has  *)
(* not yet closed it).                                                      *)

RevConcFrame ==
    UNCHANGED <<clock, nextSeq, deqLog, scheduled, thr, delivered,
                backoff, gemini_review_backoff_until, rlVars, catVars>>

(* lines 405-423: the path exists and is read; a text that does not parse   *)
(* is unlinked                                                              *)
ReviewLoad(name) ==
    /\ gp.pc = "idle"
    /\ name \in DOMAIN files
    /\ Len(deqLog) + Len(delivered) < MaxDelivered
    /\ IF files[name].parseable
       THEN /\ gp' = [pc |-> "loaded", name |-> name, rec |-> files[name]]
            /\ files' = files
       ELSE /\ gp' = gp
            /\ files' = RemoveFiles(files, {name})
    /\ last' = [op |-> "review_load", name |-> name]
    /\ UNCHANGED seen
    /\ RevConcFrame

(* open(path, "w"): the file exists from here on and its text is empty or   *)
(* cut short until the write is flushed                                     *)
TextWhileOpen(fs, name, rec) ==
    [n \in (DOMAIN fs) \cup {name} |->
        IF n = name THEN [rec EXCEPT !.parseable = FALSE] ELSE fs[n]]

(* lines 439-458 for the loaded path: no review (retry), ok is False        *)
(* (unlink), or the write of the reviewed record begins                     *)
ReviewOpen(verdict) ==
    /\ gp.pc = "loaded"
    /\ IF verdict = "none"
       THEN /\ gp' = [pc |-> "idle"]
            /\ files' = files
       ELSE IF verdict = "reject"
       THEN /\ gp' = [pc |-> "idle"]
            /\ files' = RemoveFiles(files, {gp.name})
       ELSE \E rec \in {[gp.rec EXCEPT !.doc = IF verdict = "fix" THEN CorrectedDoc(@) ELSE @,
                                       !.review = "ok"]} :
            /\ gp' = [pc |-> "open", name |-> gp.name, rec |-> rec]
            /\ files' = TextWhileOpen(files, gp.name, rec)
    /\ last' = [op |-> "review_open", name |-> gp.name, verdict |-> verdict]
    /\ UNCHANGED seen
    /\ RevConcFrame

(* lines 458-465: the text is complete and the file closed; a file that was *)
(* unlinked while it was open stays unlinked; dedupe.add(sig)               *)
ReviewClose ==
    /\ gp.pc = "open"
    /\ files' = IF gp.name \in DOMAIN files /\ ~files[gp.name].parseable
                THEN [files EXCEPT ![gp.name] = gp.rec]
                ELSE files
    /\ seen' = Add(seen, SignatureForDoc(gp.rec.doc), clock)
    /\ gp' = [pc |-> "idle"]
    /\ last' = [op |-> "review_close", name |-> gp.name]
    /\ RevConcFrame

ReviewVerdicts == {"none", "reject", "approve", "fix"}

NextRevConc ==
    \/ \E d \in Docs : Enqueue(d)
    \/ \E name \in DOMAIN files : ReviewLoad(name)
    \/ \E verdict \in ReviewVerdicts : ReviewOpen(verdict)
    \/ ReviewClose
    \/ Dequeue
    \/ \E name \in DOMAIN files :
          Take(MakeToken("file", [prefix |-> "", name |-> name], MaxClock))
    \/ Peek(MaxPeek)

SpecRevConc == Init /\ [][NextRevConc]_vars

PartialOnlyWhileReviewOpen ==
    \A n \in DOMAIN files :
        ~files[n].parseable => (gp.pc = "open" /\ gp.name = n)

(* the ghost ordinals of the records delivered so far, by dequeue and take *)
DeliveredSeqs ==
    {deqLog[i] : i \in DOMAIN deqLog} \cup {delivered[i][2] : i \in DOMAIN delivered}

TimesDelivered(q) ==
    Cardinality({i \in DOMAIN deqLog : deqLog[i] = q})
        + Cardinality({i \in DOMAIN delivered : delivered[i][2] = q})

ReentersOnlyReviewed ==
    \A q \in DeliveredSeqs : \A n \in DOMAIN files :
        files[n].seq = q => (files[n].review = "ok" \/ (gp.pc = "open" /\ gp.name = n))
====
